---- MODULE Spec2Model ----
(***************************************************************************)
(* A model of git3: an S3-compatible object handler over a directory       *)
(* (internal/s3) and the debounced git Sync Worker (internal/git).         *)
(*                                                                         *)
(* Spec       the Sync Worker: HTTP goroutines calling Trigger, the        *)
(*            debounce timer and its doSync callbacks, the periodic        *)
(*            puller, all contending for gs.mu, in discrete time.          *)
(* SpecLive   Spec with the fairness the Go runtime gives.                 *)
(* SpecStore  the S3 handler acting on the filesystem, one request at a    *)
(*            time.                                                        *)
(* SpecAuth   SpecStore with or without an access key configured.          *)
(* SpecPull   SpecLive with the puller's ticker ticking for ever.          *)
(* SpecSig    the SigV4 verifier: a request is signed, changed or given an *)
(*            unfit Authorization header, and verified.                    *)
(* SpecTree   PUT and DELETE of keys nested three deep.                    *)
(* SpecDir    SpecTree under either spelling of the configured directory.  *)
(* SpecList   listings of a tree holding ".git" directories and files.     *)
(* SpecDispatch  ServeHTTP whole: OPTIONS, signature check, route and      *)
(*            dispatch.                                                    *)
(* SpecInit   InitRepo called again and again on one directory.            *)
(***************************************************************************)
EXTENDS Integers, Sequences, FiniteSets, TLC

(***************************************************************************)
(* Bounds of the Sync Worker model.                                        *)
(***************************************************************************)
\* Number of Trigger calls (hence timers installed) in one behaviour.
MaxTriggers == 2
\* cfg.Debounce, in clock ticks.
Debounce == 2
\* The pull interval handed to StartPuller when it is positive, in ticks.
PullTicks == 2
\* Working-tree contents are 0..MaxContent (0 is the empty tree).
MaxContent == 1

\* The HTTP server's goroutines that run a mutating handler; they are
\* alike, and the lowest-numbered idle one takes the next request.
Clients == {1, 2}
Timers == 1..MaxTriggers
Contents == 0..MaxContent

VARIABLES
  \* ---- Sync Worker (internal/git/syncer.go) ----
  cfg,        \* [repoNil, remote, interval]: gs.repo == nil, gs.remote != "", StartPuller's argument
  mu,         \* gs.mu: [kind |-> "free"] or its holder
  timer,      \* gs.timer: 0 is nil, else the timer installed last
  tstate,     \* per timer: the timer's state, then its doSync callback's position
  tleft,      \* per timer: ticks until it expires
  hpc,        \* per HTTP goroutine: position in the handler / Trigger
  ppc,        \* the puller goroutine's position
  wt,         \* working tree content
  idx,        \* index (staged) content
  tree,       \* tree of the HEAD commit
  head,       \* HEAD hash, kept as the parity of the number of HEAD updates
  panicked,   \* a nil *Repository was dereferenced
  \* ---- observation of the Sync Worker ----
  sinceCall,  \* while burst is "ok": ticks since the latest Trigger call, saturating at Debounce
  burst,      \* "none", "ok" (every call so far came < Debounce after the previous), "broken"
  examined,   \* Trigger calls that had returned when the latest doSync execution began
  noChange,   \* the latest stage step found the tree as it was staged before, and no write since
  okPrev,     \* the latest execution that staged ended clean or committed
  \* ---- S3 handler and the filesystem (internal/s3 handler) ----
  files,      \* regular files: absolute path |-> bytes
  dirs,       \* directories: set of absolute paths (<<>> is the filesystem root)
  resp,       \* the latest request's method and the response it got
  accessKey,  \* s.accessKey: "" (no authentication) or the configured key
  dirArg,     \* s.dir: the string NewHandler was given, naming Dir
  verdict,    \* what sigV4Verify said of the latest request: "valid", "invalid";
              \* "unchecked" when it was not called, "none" before any request
  \* ---- the SigV4 verifier taken alone (internal/s3 sigv4) ----
  sigv,       \* [stage, what, cred, orig, req, result]: a credential, the request
              \* as it was signed, as it arrives, and what sigV4Verify returns
  \* ---- repository initialisation (internal/git InitRepo) ----
  ir          \* [pc, repo, dirEmpty, disk, handle, ...]: InitRepo's position, its
              \* Config, the repository at Dir and the handle returned

workerVars == <<cfg, mu, timer, tstate, tleft, hpc, ppc,
                wt, idx, tree, head, panicked>>
ghostVars == <<sinceCall, burst, examined,
               noChange, okPrev>>
storeVars == <<files, dirs, resp, accessKey, dirArg, verdict, sigv, ir>>
vars == <<workerVars, ghostVars, storeVars>>

Free == [kind |-> "free", id |-> 0]
Holder(k, i) == [kind |-> k, id |-> i]

Min(a, b) == IF a < b THEN a ELSE b

\* Positions of a doSync callback between mu.Lock() and mu.Unlock().
SyncBody == {"begin", "worktree", "add", "status", "commit", "pull", "push", "unlock"}
\* Positions in which the callback performs a repository operation.
RepoOps == {"worktree", "add", "status", "commit", "pull", "push"}

Used == {i \in Timers : tstate[i] # "unused"}
\* Trigger calls that have returned: every timer was installed by one, and
\* the caller at "unlock" has installed its timer and not yet returned.
TrigRet == Cardinality(Used) - Cardinality({h \in Clients : hpc[h] = "unlock"})
\* Ticks since the latest Trigger installed its timer, saturating at
\* Debounce: that timer is armed until it expires, and only a later Trigger
\* stops it.
SinceArm ==
  IF timer # 0 /\ tstate[timer] = "armed" THEN Debounce - tleft[timer] ELSE Debounce
\* doSync executions begun.
SyncRuns == Cardinality({i \in Timers : tstate[i] \in SyncBody \cup {"done"}})

InitWorker ==
  /\ cfg \in [repoNil : BOOLEAN, remote : BOOLEAN, interval : {0, PullTicks}]
  /\ mu = Free
  /\ timer = 0
  /\ tstate = [i \in Timers |-> "unused"]
  /\ tleft = [i \in Timers |-> 0]
  /\ hpc = [h \in Clients |-> "idle"]
  /\ ppc = "init"
  /\ wt = 0 /\ idx = 0 /\ tree = 0 /\ head = 0
  /\ panicked = FALSE
  /\ sinceCall = 0 /\ burst = "none"
  /\ examined = 0
  /\ noChange = FALSE /\ okPrev = FALSE

repoVars == <<wt, idx, tree, head>>
timerVars == <<timer, tstate, tleft>>
clockGhost == <<sinceCall, burst>>
commitGhost == <<noChange, okPrev>>

(***************************************************************************)
(* gs.mu                                                                   *)
(***************************************************************************)
Lock(k, i) == mu = Free /\ mu' = Holder(k, i)
Unlock(k, i) == mu = Holder(k, i) /\ mu' = Free

(***************************************************************************)
(* The HTTP path: putObject / deleteObject change the working tree and     *)
(* then call syncer.Trigger().                                             *)
(***************************************************************************)
\* The handler's store mutation, followed by the call of Trigger, which
\* reaches gs.mu.Lock(). A DELETE of a missing object, or a PUT of the bytes
\* already stored, leaves the tree as it was and calls Trigger all the same.
HttpMutate(h) ==
  /\ hpc[h] = "idle"
  /\ \A g \in Clients : g < h => hpc[g] # "idle"
  /\ Cardinality(Used) + Cardinality({g \in Clients : hpc[g] # "idle"}) < MaxTriggers
  /\ \E c \in Contents :
       /\ wt' = c
       /\ noChange' = (noChange /\ c = wt)
  /\ hpc' = [hpc EXCEPT ![h] = "lock"]
  /\ burst' = IF burst = "none" \/ (burst = "ok" /\ sinceCall < Debounce)
              THEN "ok" ELSE "broken"
  /\ sinceCall' = 0
  /\ UNCHANGED <<storeVars, cfg, mu, timerVars, ppc, idx, tree, head, panicked,
                 examined, okPrev>>

\* Trigger: gs.mu.Lock() succeeds.
TriggerLock(h) ==
  /\ hpc[h] = "lock"
  /\ Lock("http", h)
  /\ hpc' = [hpc EXCEPT ![h] = "arm"]
  /\ UNCHANGED <<storeVars, cfg, timerVars, ppc, repoVars, panicked,
                 clockGhost, examined, commitGhost>>

\* timer.Stop(): an armed timer is cancelled; a timer that already expired
\* is not (Stop returns false, its callback goroutine exists and will run).
StopTimer(ts, t) ==
  IF t # 0 /\ ts[t] = "armed" THEN [ts EXCEPT ![t] = "stopped"] ELSE ts

\* Trigger with its two statements swapped: the timer just installed is the
\* one stopped.
TriggerArm_StopsNew(h) ==
  /\ hpc[h] = "arm"
  /\ LET n == Cardinality(Used) + 1
     IN /\ n \in Timers
        /\ tstate' = [tstate EXCEPT ![n] = "stopped"]
        /\ tleft' = [tleft EXCEPT ![n] = Debounce]
        /\ timer' = n
  /\ hpc' = [hpc EXCEPT ![h] = "unlock"]
  /\ UNCHANGED <<storeVars, cfg, mu, ppc, repoVars, panicked, ghostVars>>

\* Trigger: if gs.timer != nil { gs.timer.Stop() };
\*          gs.timer = time.AfterFunc(gs.debounce, gs.doSync)
TriggerArm(h) ==
  /\ hpc[h] = "arm"
  /\ LET n == Cardinality(Used) + 1
     IN /\ n \in Timers
        /\ tstate' = [StopTimer(tstate, timer) EXCEPT ![n] = "armed"]
        /\ tleft' = [tleft EXCEPT ![n] = Debounce]
        /\ timer' = n
  /\ hpc' = [hpc EXCEPT ![h] = "unlock"]
  /\ UNCHANGED <<storeVars, cfg, mu, ppc, repoVars, panicked, ghostVars>>

\* Trigger: the deferred gs.mu.Unlock(); Trigger returns.
TriggerUnlock(h) ==
  /\ hpc[h] = "unlock"
  /\ Unlock("http", h)
  /\ hpc' = [hpc EXCEPT ![h] = "idle"]
  /\ UNCHANGED <<storeVars, cfg, timerVars, ppc, repoVars, panicked, ghostVars>>

(***************************************************************************)
(* The debounce timer and doSync                                           *)
(***************************************************************************)
\* The runtime expires the timer and starts a goroutine running gs.doSync.
TimerFire(i) ==
  /\ tstate[i] = "armed"
  /\ tleft[i] = 0
  /\ tstate' = [tstate EXCEPT ![i] = "fired"]
  /\ UNCHANGED <<storeVars, cfg, mu, timer, tleft, hpc, ppc, repoVars, panicked, ghostVars>>

\* doSync: gs.mu.Lock() succeeds; the execution begins.
SyncLock(i) ==
  /\ tstate[i] = "fired"
  /\ Lock("sync", i)
  /\ tstate' = [tstate EXCEPT ![i] = "begin"]
  /\ examined' = TrigRet
  /\ UNCHANGED <<storeVars, cfg, timer, tleft, hpc, ppc, repoVars, panicked,
                 clockGhost, commitGhost>>

\* doSync: if gs.repo == nil { return }
SyncBegin(i) ==
  /\ tstate[i] = "begin"
  /\ tstate' = [tstate EXCEPT ![i] = IF cfg.repoNil THEN "unlock" ELSE "worktree"]
  /\ UNCHANGED <<storeVars, cfg, mu, timer, tleft, hpc, ppc, repoVars, panicked, ghostVars>>

\* doSync: wt, err := gs.repo.Worktree()
SyncWorktree(i) ==
  /\ tstate[i] = "worktree"
  /\ \E ok \in BOOLEAN :
       tstate' = [tstate EXCEPT ![i] = IF ok THEN "add" ELSE "unlock"]
  /\ UNCHANGED <<storeVars, cfg, mu, timer, tleft, hpc, ppc, repoVars, panicked, ghostVars>>

\* doSync: wt.AddGlob(".") stages the working tree as it is now.
SyncAdd(i) ==
  /\ tstate[i] = "add"
  /\ \E ok \in BOOLEAN :
       IF ok
       THEN /\ idx' = wt
            /\ noChange' = (wt = idx)
            /\ tstate' = [tstate EXCEPT ![i] = "status"]
       ELSE /\ tstate' = [tstate EXCEPT ![i] = "unlock"]
            /\ UNCHANGED <<idx, noChange>>
  /\ UNCHANGED <<storeVars, cfg, mu, timer, tleft, hpc, ppc, wt, tree, head, panicked,
                 clockGhost, examined, okPrev>>

\* status.IsClean(): nothing staged and nothing unstaged.
IsClean == wt = idx /\ idx = tree

\* doSync going on to commit without the status.IsClean() return.
SyncStatus_NoCleanReturn(i) ==
  /\ tstate[i] = "status"
  /\ \E ok \in BOOLEAN :
       IF ~ok
       THEN /\ tstate' = [tstate EXCEPT ![i] = "unlock"]
            /\ okPrev' = FALSE
       ELSE /\ tstate' = [tstate EXCEPT ![i] = "commit"]
            /\ UNCHANGED okPrev
  /\ UNCHANGED <<storeVars, cfg, mu, timer, tleft, hpc, ppc, repoVars, panicked,
                 clockGhost, examined, noChange>>

\* doSync returning on a clean status with gs.mu still held.
SyncStatus_CleanKeepsMutex(i) ==
  /\ tstate[i] = "status"
  /\ \E ok \in BOOLEAN :
       IF ~ok
       THEN /\ tstate' = [tstate EXCEPT ![i] = "unlock"]
            /\ okPrev' = FALSE
       ELSE IF IsClean
       THEN /\ tstate' = [tstate EXCEPT ![i] = "done"]
            /\ okPrev' = TRUE
       ELSE /\ tstate' = [tstate EXCEPT ![i] = "commit"]
            /\ UNCHANGED okPrev
  /\ UNCHANGED <<storeVars, cfg, mu, timer, tleft, hpc, ppc, repoVars, panicked,
                 clockGhost, examined, noChange>>

\* doSync: status, err := wt.Status(); if status.IsClean() { return }
SyncStatus(i) ==
  /\ tstate[i] = "status"
  /\ \E ok \in BOOLEAN :
       IF ~ok
       THEN /\ tstate' = [tstate EXCEPT ![i] = "unlock"]
            /\ okPrev' = FALSE
       ELSE IF IsClean
       THEN /\ tstate' = [tstate EXCEPT ![i] = "unlock"]
            /\ okPrev' = TRUE
       ELSE /\ tstate' = [tstate EXCEPT ![i] = "commit"]
            /\ UNCHANGED okPrev
  /\ UNCHANGED <<storeVars, cfg, mu, timer, tleft, hpc, ppc, repoVars, panicked,
                 clockGhost, examined, noChange>>

\* doSync going on to pull and push after a commit that failed.
SyncCommit_PullAfterFailure(i) ==
  /\ tstate[i] = "commit"
  /\ \E ok \in BOOLEAN :
       IF ok
       THEN /\ head' = 1 - head
            /\ tree' = idx
            /\ okPrev' = TRUE
            /\ tstate' = [tstate EXCEPT ![i] = IF cfg.remote THEN "pull" ELSE "unlock"]
       ELSE /\ tstate' = [tstate EXCEPT ![i] = IF cfg.remote THEN "pull" ELSE "unlock"]
            /\ okPrev' = FALSE
            /\ UNCHANGED <<head, tree>>
  /\ UNCHANGED <<storeVars, cfg, mu, timer, tleft, hpc, ppc, wt, idx, panicked,
                 clockGhost, examined, noChange>>

\* doSync: wt.Commit(msg, ...) commits the index; then pull and push if a
\* remote is configured.
SyncCommit(i) ==
  /\ tstate[i] = "commit"
  /\ \E ok \in BOOLEAN :
       IF ok
       THEN /\ head' = 1 - head
            /\ tree' = idx
            /\ okPrev' = TRUE
            /\ tstate' = [tstate EXCEPT ![i] = IF cfg.remote THEN "pull" ELSE "unlock"]
       ELSE /\ tstate' = [tstate EXCEPT ![i] = "unlock"]
            /\ okPrev' = FALSE
            /\ UNCHANGED <<head, tree>>
  /\ UNCHANGED <<storeVars, cfg, mu, timer, tleft, hpc, ppc, wt, idx, panicked,
                 clockGhost, examined, noChange>>

\* pullLocked: gs.repo.Worktree() and wt.Pull(). A nil repo is dereferenced
\* (a panic). Otherwise the pull fails, finds nothing new, or fast-forwards
\* a clean checkout to what the remote holds.
PullLocked ==
  IF cfg.repoNil
  THEN panicked' = TRUE /\ UNCHANGED repoVars
  ELSE /\ UNCHANGED panicked
       /\ \/ UNCHANGED repoVars
          \/ /\ IsClean
             /\ head' = 1 - head
             /\ \E c \in Contents : wt' = c /\ idx' = c /\ tree' = c

\* doSync: gs.pullLocked()
SyncPull(i) ==
  /\ tstate[i] = "pull"
  /\ PullLocked
  /\ tstate' = [tstate EXCEPT ![i] = "push"]
  /\ UNCHANGED <<storeVars, cfg, mu, timer, tleft, hpc, ppc, ghostVars>>

\* doSync: gs.repo.Push(pushOpts), attempted once; it changes the remote
\* alone, and doSync returns whether it failed or not.
SyncPush(i) ==
  /\ tstate[i] = "push"
  /\ tstate' = [tstate EXCEPT ![i] = "unlock"]
  /\ UNCHANGED <<storeVars, cfg, mu, timer, tleft, hpc, ppc, repoVars, panicked, ghostVars>>

\* doSync: the deferred gs.mu.Unlock().
SyncUnlock(i) ==
  /\ tstate[i] = "unlock"
  /\ Unlock("sync", i)
  /\ tstate' = [tstate EXCEPT ![i] = "done"]
  /\ UNCHANGED <<storeVars, cfg, timer, tleft, hpc, ppc, repoVars, panicked, ghostVars>>

(***************************************************************************)
(* The periodic puller                                                     *)
(***************************************************************************)
\* StartPuller without its gs.repo == nil test.
StartPuller_NoNilCheck ==
  /\ ppc = "init"
  /\ ppc' = IF ~cfg.remote \/ cfg.interval <= 0 THEN "off" ELSE "wait"
  /\ UNCHANGED <<storeVars, cfg, mu, timerVars, hpc, repoVars, panicked, ghostVars>>

\* StartPuller: returns at once without a repo, a remote or a positive
\* interval; else starts the goroutine and its ticker.
StartPuller ==
  /\ ppc = "init"
  /\ ppc' = IF cfg.repoNil \/ ~cfg.remote \/ cfg.interval <= 0 THEN "off" ELSE "wait"
  /\ UNCHANGED <<storeVars, cfg, mu, timerVars, hpc, repoVars, panicked, ghostVars>>

\* for range ticker.C { gs.doPull() }: a tick is received (the ticker's
\* period is not measured: a tick may come at any time), doPull reaches
\* gs.mu.Lock().
PullerRecv ==
  /\ ppc = "wait"
  /\ ppc' = "lock"
  /\ UNCHANGED <<storeVars, cfg, mu, timerVars, hpc, repoVars, panicked, ghostVars>>

\* doPull entering pullLocked without taking gs.mu.
DoPullLock_NoMutex ==
  /\ ppc = "lock"
  /\ ppc' = "pull"
  /\ UNCHANGED <<storeVars, cfg, mu, timerVars, hpc, repoVars, panicked, ghostVars>>

\* doPull: gs.mu.Lock() succeeds.
DoPullLock ==
  /\ ppc = "lock"
  /\ Lock("pull", 0)
  /\ ppc' = "pull"
  /\ UNCHANGED <<storeVars, cfg, timerVars, hpc, repoVars, panicked, ghostVars>>

\* doPull: gs.pullLocked()
DoPullBody ==
  /\ ppc = "pull"
  /\ PullLocked
  /\ ppc' = "unlock"
  /\ UNCHANGED <<storeVars, cfg, mu, timerVars, hpc, ghostVars>>

\* doPull's return ending the loop: the goroutine does not wait for another
\* tick.
DoPullUnlock_LoopEnds ==
  /\ ppc = "unlock"
  /\ Unlock("pull", 0)
  /\ ppc' = "off"
  /\ UNCHANGED <<storeVars, cfg, timerVars, hpc, repoVars, panicked, ghostVars>>

\* doPull: the deferred gs.mu.Unlock(); the loop waits for the next tick.
DoPullUnlock ==
  /\ ppc = "unlock"
  /\ Unlock("pull", 0)
  /\ ppc' = "wait"
  /\ UNCHANGED <<storeVars, cfg, timerVars, hpc, repoVars, panicked, ghostVars>>

(***************************************************************************)
(* Time.  Local steps (taking a free mutex, the statements of Trigger, the *)
(* nil check, Unlock, an expired timer starting its goroutine) take no     *)
(* time; repository and network operations take any amount of it.          *)
(***************************************************************************)
Urgent ==
  \/ ppc = "init"
  \/ \E h \in Clients : hpc[h] \in {"arm", "unlock"} \/ (hpc[h] = "lock" /\ mu = Free)
  \/ \E i \in Timers : \/ tstate[i] = "armed" /\ tleft[i] = 0
                       \/ tstate[i] = "fired" /\ mu = Free
                       \/ tstate[i] \in {"begin", "unlock"}
  \/ ppc = "lock" /\ mu = Free
  \/ ppc = "unlock"

Tick ==
  /\ ~Urgent
  /\ tleft' = [i \in Timers |->
                 IF tstate[i] = "armed" /\ tleft[i] > 0 THEN tleft[i] - 1 ELSE tleft[i]]
  /\ sinceCall' = IF burst = "ok" THEN Min(sinceCall + 1, Debounce) ELSE sinceCall
  /\ UNCHANGED <<storeVars, cfg, mu, timer, tstate, hpc, ppc, repoVars, panicked,
                 burst, examined, commitGhost>>

(***************************************************************************)
(* The S3 handler over the filesystem.  A path is the sequence of its      *)
(* segments below the filesystem root <<>>; a key is the sequence of its   *)
(* "/"-separated segments.                                                 *)
(***************************************************************************)
\* Longest key, in segments.
MaxKeyLen == 2
\* Most regular files at once.
MaxFiles == 2

\* Deepest nesting of a key in the store's tree, in segments.
MaxDepth == 3

\* Keys of a tree with version-control metadata: segments "a" and ".git".
ListNames == {"a", ".git"}
ListKeys == UNION {[1..n -> ListNames] : n \in 1..MaxDepth}

\* The directory s.dir names, right below the root.
Dir == <<"d">>
Names == {"a", "b"}
Segments == Names \cup {".."}
Keys == UNION {[1..n -> Segments] : n \in 1..MaxKeyLen}
\* Keys of nested objects, with no ".." segment.
DeepKeys == UNION {[1..n -> Names] : n \in 1..MaxDepth}
\* Request bodies: empty, one byte, two bytes; closed under prefixes.
Bodies == {<<>>, <<1>>, <<1, 2>>}
\* What Stat reports as the size of a directory depends on the filesystem.
DirSizes == {0, 4096}

\* The cleaned path p as filepath.Join and filepath.Dir spell it: "/" for
\* the root, else every segment after a "/".
PathString(p) ==
  IF p = <<>> THEN <<"/">>
  ELSE [i \in 1..(2 * Len(p)) |-> IF i % 2 = 1 THEN "/" ELSE p[i \div 2]]

\* NewHandler's dir argument, kept as given: the cleaned spelling of Dir or
\* the one with a trailing "/".
DirArgs == {PathString(Dir), Append(PathString(Dir), "/")}

Parent(p) == IF p = <<>> THEN <<>> ELSE SubSeq(p, 1, Len(p) - 1)
Prefixes(p) == {SubSeq(p, 1, n) : n \in 0..Len(p)}
IsPrefix(q, p) == Len(q) <= Len(p) /\ SubSeq(p, 1, Len(q)) = q

\* filepath.Join(base, filepath.FromSlash(key)): the segments are appended
\* and the result is cleaned, ".." dropping the segment before it (the root
\* is its own parent).
RECURSIVE Join(_, _)
Join(base, key) ==
  IF key = <<>> THEN base
  ELSE Join(IF Head(key) = ".." THEN Parent(base) ELSE Append(base, Head(key)),
            Tail(key))

\* fullPath := filepath.Join(s.dir, filepath.FromSlash(key)), for every key.
FullPath == [key \in Keys \cup DeepKeys \cup ListKeys |-> Join(Dir, key)]

\* The key's path is not s.dir or below it.
Escapes(key) == ~IsPrefix(Dir, FullPath[key])

\* os.ReadDir(p): the entries of p, none when p is not a directory.
Entries(fl, ds, p) ==
  IF p \in ds THEN {q \in (DOMAIN fl) \cup ds : q # <<>> /\ Parent(q) = p} ELSE {}

\* Path resolution fails with ENOTDIR: a proper prefix of p is a file.
NotDir(fl, p) == \E q \in Prefixes(p) : q # p /\ q \in DOMAIN fl

\* os.MkdirAll(p): fails when p or one of its ancestors is a file, else
\* makes every missing directory down to p.
MkdirAllOk(fl, p) == \A q \in Prefixes(p) : q \notin DOMAIN fl
MkdirAll(ds, p) == ds \cup Prefixes(p)

Without(fl, p) == [q \in (DOMAIN fl) \ {p} |-> fl[q]]

\* No ListBucketResult: the response is not a listing's.
NoList ==
  [listed |-> FALSE, prefix |-> <<>>, maxKeysArg |-> <<>>, maxKeys |-> 0,
   keyCount |-> 0, truncated |-> FALSE, contents |-> <<>>]

\* The request's method and what the handler answered (a bucket-level
\* request has the empty key): status 0 until the first request; clen -1 when the handler sets no Content-Length; etag ""
\* when it sets no ETag, else what the quoted hash is taken of; cleaned is
\* the number of directories a DELETE removed; list is the ListBucketResult
\* of a listing.
Response(m, key, st, code, body, clen, etag, trig) ==
  [method |-> m, status |-> st, code |-> code, body |-> body, clen |-> clen,
   etag |-> etag, trig |-> trig, escaped |-> (key # <<>> /\ Escapes(key)),
   ioerr |-> FALSE, cleaned |-> 0, list |-> NoList]

\* xmlError(w, status, code, message)
XmlError(m, key, st, code) == Response(m, key, st, code, <<>>, -1, "", FALSE)

\* No request has been signed; the credential is a plain one.
NoRequest ==
  [method |-> "", path |-> <<>>, query |-> <<>>, host |-> <<>>, header |-> <<>>]

\* No repository at Dir.
NoRepo == [exists |-> FALSE, head |-> "", remotes |-> {}]

\* No earlier InitRepo call.
NoCall == [handle |-> "none", tried |-> {}]

\* Before the first InitRepo call: Dir holds no repository.
InitIr ==
  ir = [pc |-> "idle", repo |-> "", dirEmpty |-> TRUE, disk |-> NoRepo,
        before |-> NoRepo, handle |-> "none", calls |-> 0, tried |-> {}, failed |-> {},
        prev |-> NoCall]

InitSigv ==
  sigv = [stage |-> "init", what |-> "none",
          cred |-> [accessKey |-> <<"AK">>, secretKey |-> <<"sk">>, region |-> <<"us-east-1">>],
          orig |-> NoRequest, req |-> NoRequest, result |-> FALSE]

InitStore ==
  /\ files = <<>>
  /\ dirs = {<<>>, Dir}
  /\ resp = [method |-> "none", status |-> 0, code |-> "", body |-> <<>>, clen |-> -1,
             etag |-> "", trig |-> FALSE, escaped |-> FALSE, ioerr |-> FALSE,
             cleaned |-> 0, list |-> NoList]

\* os.Create's O_TRUNC and the io.Copy of the body: p holds exactly content.
\* Without O_TRUNC the old bytes past the new content would stay.
WriteFile_NoTruncate(fl, p, content) ==
  IF p \in DOMAIN fl
  THEN (p :> (content \o SubSeq(fl[p], Len(content) + 1, Len(fl[p])))) @@ fl
  ELSE (p :> content) @@ fl

\* os.Create(p) (O_CREATE|O_TRUNC) followed by io.Copy(f, r.Body): p holds
\* exactly content, whatever it held before.
WriteFile(fl, p, content) == (p :> content) @@ fl

\* putObject: MkdirAll of the parent, Create, io.Copy, the ETag of what was
\* written, 200, Trigger. A file among the parent's ancestors fails
\* MkdirAll, a directory at the path fails Create, and the disk or the
\* request body may fail at Create or during the copy (which leaves the
\* bytes copied so far): each answers 500 InternalError, without Trigger.
PutObject(key, body) ==
  LET fullPath == FullPath[key]
      err == XmlError("PUT", key, 500, "InternalError")
  IN /\ IF ~MkdirAllOk(files, Parent(fullPath))
        THEN /\ resp' = err
             /\ UNCHANGED <<files, dirs>>
        ELSE /\ dirs' = MkdirAll(dirs, Parent(fullPath))
             /\ IF fullPath \in dirs'
                THEN /\ resp' = err
                     /\ UNCHANGED files
                ELSE /\ fullPath \in DOMAIN files \/ Cardinality(DOMAIN files) < MaxFiles
                     /\ \/ /\ files' = WriteFile(files, fullPath, body)
                           /\ resp' = Response("PUT", key, 200, "", <<>>, -1, "content", TRUE)
                        \/ /\ resp' = [err EXCEPT !.ioerr = TRUE]
                           /\ \/ UNCHANGED files
                              \/ \E n \in 0..Len(body) :
                                   files' = WriteFile(files, fullPath, SubSeq(body, 1, n))
     /\ UNCHANGED <<accessKey, dirArg, ir, sigv, workerVars, ghostVars>>

\* getObject: Stat fails -> 404 NoSuchKey; Open fails -> 500; else 200 with
\* Content-Length info.Size() and the file copied to the response. Stat and
\* Open succeed on a directory too, and reading it yields no bytes.
GetResponses(fl, ds, key) ==
  LET fullPath == FullPath[key]
  IN IF fullPath \in DOMAIN fl
     THEN {Response("GET", key, 200, "", fl[fullPath], Len(fl[fullPath]), "", FALSE),
           [XmlError("GET", key, 500, "InternalError") EXCEPT !.ioerr = TRUE]}
     ELSE IF fullPath \in ds
     THEN {Response("GET", key, 200, "", <<>>, n, "", FALSE) : n \in DirSizes}
            \cup {[XmlError("GET", key, 500, "InternalError") EXCEPT !.ioerr = TRUE]}
     ELSE {XmlError("GET", key, 404, "NoSuchKey")}

\* getObject calling s.syncer.Trigger() before it returns.
GetObject_Triggers(key) ==
  /\ resp' \in {[r EXCEPT !.trig = TRUE] : r \in GetResponses(files, dirs, key)}
  /\ UNCHANGED <<files, dirs, accessKey, dirArg, ir, sigv, workerVars, ghostVars>>

GetObject(key) ==
  /\ resp' \in GetResponses(files, dirs, key)
  /\ UNCHANGED <<files, dirs, accessKey, dirArg, ir, sigv, workerVars, ghostVars>>

\* headObject: Stat fails -> 404 NoSuchKey; else 200 with Content-Length
\* info.Size() and an ETag of the key and the modification time, no body.
HeadResponses(fl, ds, key) ==
  LET fullPath == FullPath[key]
  IN IF fullPath \in DOMAIN fl
     THEN {Response("HEAD", key, 200, "", <<>>, Len(fl[fullPath]), "key+modtime", FALSE)}
     ELSE IF fullPath \in ds
     THEN {Response("HEAD", key, 200, "", <<>>, n, "key+modtime", FALSE) : n \in DirSizes}
     ELSE {XmlError("HEAD", key, 404, "NoSuchKey")}

HeadObject(key) ==
  /\ resp' \in HeadResponses(files, dirs, key)
  /\ UNCHANGED <<files, dirs, accessKey, dirArg, ir, sigv, workerVars, ghostVars>>

\* deleteObject's loop stopping after the first parent.
Cleanup_OneLevel(fl, ds, dir) ==
  IF PathString(dir) = dirArg \/ dir = <<>> \/ Entries(fl, ds, dir) # {}
  THEN ds
  ELSE ds \ {dir}

\* deleteObject's loop: from dir upwards until dir is, as a string, s.dir;
\* stop at a directory
\* that has entries, else os.Remove it (a missing one is passed over). The
\* root always has entries, the system's own.
RECURSIVE Cleanup(_, _, _)
Cleanup(fl, ds, dir) ==
  IF PathString(dir) = dirArg \/ dir = <<>> \/ Entries(fl, ds, dir) # {}
  THEN ds
  ELSE Cleanup(fl, ds \ {dir}, Parent(dir))

\* deleteObject on the store (fl, ds): os.Remove(fullPath) removes a file or
\* an empty directory; its error is passed over only if it is "not exist" (a
\* non-empty directory, the root, or a file among the ancestors answer 500
\* and change nothing); then the empty parents are removed and the answer
\* is 204.
DeleteOutcome(fl, ds, key) ==
  LET fullPath == FullPath[key]
      isFile == fullPath \in DOMAIN fl
      isDir == fullPath \in ds
      removable == isDir /\ fullPath # <<>> /\ Entries(fl, ds, fullPath) = {}
      failed == (isDir /\ ~removable) \/ (~isFile /\ ~isDir /\ NotDir(fl, fullPath))
      fl1 == IF isFile THEN Without(fl, fullPath) ELSE fl
      ds1 == IF removable THEN ds \ {fullPath} ELSE ds
  IN IF failed
     THEN [status |-> 500, files |-> fl, dirs |-> ds]
     ELSE [status |-> 204, files |-> fl1, dirs |-> Cleanup(fl1, ds1, Parent(fullPath))]

\* deleteObject: 500 InternalError when os.Remove failed, else 204 and
\* Trigger.
DeleteObject(key) ==
  LET out == DeleteOutcome(files, dirs, key)
  IN /\ files' = out.files
     /\ dirs' = out.dirs
     /\ resp' = IF out.status = 500
                THEN XmlError("DELETE", key, 500, "InternalError")
                ELSE [Response("DELETE", key, 204, "", <<>>, -1, "", TRUE)
                        EXCEPT !.cleaned = Cardinality(dirs \ out.dirs)]
     /\ UNCHANGED <<accessKey, dirArg, ir, sigv, workerVars, ghostVars>>

\* Every name a directory entry can have, in the lexical order in which
\* filepath.Walk visits the entries of a directory.
LexNames == <<".git", "a", "b">>

\* filepath.Walk(root, fn) without the skipping of ".git" directories.
RECURSIVE Walk_NoSkipGit(_, _, _), WalkNoSkipEntries(_, _, _, _)
Walk_NoSkipGit(fl, ds, p) ==
  IF p \in DOMAIN fl THEN <<p>>
  ELSE IF p \notin ds THEN <<>>
  ELSE WalkNoSkipEntries(fl, ds, p, 1)

\* filepath.Walk(root, fn) as listObjectsV2 drives it: the regular files
\* fn gets past its directory test, in the order of the walk. A path that
\* is missing is passed over, a directory named ".git" is skipped with
\* all that is below it, any other directory is walked entry by entry.
RECURSIVE Walk(_, _, _), WalkEntries(_, _, _, _)
Walk(fl, ds, p) ==
  IF p \in DOMAIN fl THEN <<p>>
  ELSE IF p \notin ds THEN <<>>
  ELSE IF p # <<>> /\ p[Len(p)] = ".git" THEN <<>>
  ELSE WalkEntries(fl, ds, p, 1)

\* The entries of directory p from the i-th name on.
WalkEntries(fl, ds, p, i) ==
  IF i > Len(LexNames) THEN <<>>
  ELSE Walk(fl, ds, Append(p, LexNames[i])) \o WalkEntries(fl, ds, p, i + 1)

WalkNoSkipEntries(fl, ds, p, i) ==
  IF i > Len(LexNames) THEN <<>>
  ELSE Walk_NoSkipGit(fl, ds, Append(p, LexNames[i]))
         \o WalkNoSkipEntries(fl, ds, p, i + 1)

\* filepath.ToSlash(filepath.Rel(root, path)) for a path below root: the
\* segments after the root's, with a "/" between them.
RelPath(root, path) ==
  LET n == Len(path) - Len(root)
  IN [i \in 1..(2 * n - 1) |->
        IF i % 2 = 1 THEN path[Len(root) + (i + 1) \div 2] ELSE "/"]

\* strings.HasPrefix(str, prefix), on strings as sequences of "/" and names.
HasPrefix(str, prefix) == IsPrefix(prefix, str)

\* strconv.Atoi(v): an optional sign, then one or more decimal digits.
DigitVal == ("0" :> 0) @@ ("1" :> 1) @@ ("2" :> 2)
RECURSIVE Decimal(_)
Decimal(digits) ==
  IF digits = <<>> THEN 0
  ELSE Decimal(SubSeq(digits, 1, Len(digits) - 1)) * 10 + DigitVal[digits[Len(digits)]]
Atoi(v) ==
  LET signed == v # <<>> /\ Head(v) \in {"+", "-"}
      digits == IF signed THEN Tail(v) ELSE v
      ok == digits # <<>> /\ \A i \in DOMAIN digits : digits[i] \in DOMAIN DigitVal
  IN [ok |-> ok,
      n |-> IF ~ok THEN 0
            ELSE IF Head(v) = "-" THEN 0 - Decimal(digits) ELSE Decimal(digits)]

\* The walk never ended by maxKeys: every matching file is appended.
Take_All(objects, n) == objects

\* The first n elements of objects, none when n <= 0: what the walk has
\* appended when len(objects) >= maxKeys ends it.
Take(objects, n) ==
  SubSeq(objects, 1, IF n <= 0 THEN 0 ELSE IF n < Len(objects) THEN n ELSE Len(objects))

\* The prefix and max-keys query values of a listing; <<>> is the absent
\* (or empty) value.
ListPrefixes ==
  {<<>>, <<"a">>, <<"a", "/">>, <<"a", "/", "a">>, <<".git">>, <<".git", "/">>,
   <<"/">>, <<"b">>}
MaxKeysValues ==
  {<<>>, <<"x">>, <<"1", "x">>, <<"0">>, <<"1">>, <<"2">>, <<"-", "1">>, <<"1", "0">>}

\* maxKeys := 1000, replaced by the max-keys value when Atoi accepts it.
MaxKeysOf(v) == IF v # <<>> /\ Atoi(v).ok THEN Atoi(v).n ELSE 1000

\* The walk's files whose relative path passes the prefix test.
Matching(fl, ds, prefix) ==
  LET walked == Walk(fl, ds, Dir)
      rel == [i \in DOMAIN walked |-> RelPath(Dir, walked[i])]
  IN SelectSeq(rel, LAMBDA k : prefix = <<>> \/ HasPrefix(k, prefix))

\* listObjectsV2: walk s.dir, keep the files passing the prefix test until
\* maxKeys are collected, answer 200 with the ListBucketResult.
ListObjectsV2(prefix, v) ==
  LET maxKeys == MaxKeysOf(v)
      objects == Take(Matching(files, dirs, prefix), maxKeys)
  IN /\ resp' = [Response("GET", <<>>, 200, "", <<>>, -1, "", FALSE) EXCEPT
                   !.list = [listed |-> TRUE, prefix |-> prefix, maxKeysArg |-> v,
                             maxKeys |-> maxKeys, keyCount |-> Len(objects),
                             truncated |-> FALSE, contents |-> objects]]
     /\ UNCHANGED <<files, dirs, accessKey, dirArg, ir, sigv, workerVars, ghostVars>>

Next ==
  \/ \E h \in Clients : HttpMutate(h)
  \/ \E h \in Clients : TriggerLock(h)
  \/ \E h \in Clients : TriggerArm(h)
  \/ \E h \in Clients : TriggerUnlock(h)
  \/ \E i \in Timers : TimerFire(i)
  \/ \E i \in Timers : SyncLock(i)
  \/ \E i \in Timers : SyncBegin(i)
  \/ \E i \in Timers : SyncWorktree(i)
  \/ \E i \in Timers : SyncAdd(i)
  \/ \E i \in Timers : SyncStatus(i)
  \/ \E i \in Timers : SyncCommit(i)
  \/ \E i \in Timers : SyncPull(i)
  \/ \E i \in Timers : SyncPush(i)
  \/ \E i \in Timers : SyncUnlock(i)
  \/ StartPuller
  \/ PullerRecv
  \/ DoPullLock
  \/ DoPullBody
  \/ DoPullUnlock
  \/ Tick

\* The Sync Worker is followed with a handler that asks for no signature.
Init ==
  /\ InitWorker
  /\ InitStore
  /\ accessKey = ""
  /\ dirArg = PathString(Dir)
  /\ verdict = "none"
  /\ InitSigv
  /\ InitIr

Spec == Init /\ [][Next]_vars

(***************************************************************************)
(* The S3 handler alone: ServeHTTP's object-level requests, one at a time, *)
(* the Sync Worker at rest.                                                *)
(***************************************************************************)
\* sigV4Verify is called only when an access key is configured; its result
\* is an input of the request.
Verdicts == IF accessKey = "" THEN {"unchecked"} ELSE {"valid", "invalid"}

\* ServeHTTP without the return after the AccessDenied answer: the request is
\* handled whatever the verifier said.
ServeHTTP_NoAuthReturn(v, m, key, Handle) ==
  /\ verdict' = v
  /\ Handle

\* ServeHTTP after the CORS headers and the OPTIONS answer: with an access
\* key configured, a request that sigV4Verify does not accept is answered
\* 403 AccessDenied and goes no further; else the request is routed to its
\* handler.
ServeHTTP(v, m, key, Handle) ==
  /\ verdict' = v
  /\ IF accessKey # "" /\ v # "valid"
     THEN /\ resp' = XmlError(m, key, 403, "AccessDenied")
          /\ UNCHANGED <<files, dirs, accessKey, dirArg, ir, sigv, workerVars, ghostVars>>
     ELSE Handle

ServePut(key, body, v) == ServeHTTP(v, "PUT", key, PutObject(key, body))
ServeGet(key, v) == ServeHTTP(v, "GET", key, GetObject(key))
ServeHead(key, v) == ServeHTTP(v, "HEAD", key, HeadObject(key))
ServeDelete(key, v) == ServeHTTP(v, "DELETE", key, DeleteObject(key))

NextStore ==
  \/ \E key \in Keys, body \in Bodies, v \in Verdicts : ServePut(key, body, v)
  \/ \E key \in Keys, v \in Verdicts : ServeGet(key, v)
  \/ \E key \in Keys, v \in Verdicts : ServeHead(key, v)
  \/ \E key \in Keys, v \in Verdicts : ServeDelete(key, v)

\* NewHandler without an access key; the worker has a repo and no remote.
InitStoreOnly ==
  /\ Init
  /\ cfg = [repoNil |-> FALSE, remote |-> FALSE, interval |-> 0]

SpecStore == InitStoreOnly /\ [][NextStore]_vars

\* NewHandler with or without an access key.
InitAuth ==
  /\ InitWorker
  /\ cfg = [repoNil |-> FALSE, remote |-> FALSE, interval |-> 0]
  /\ InitStore
  /\ accessKey \in {"", "AK"}
  /\ dirArg = PathString(Dir)
  /\ verdict = "none"
  /\ InitSigv
  /\ InitIr

\* The S3 handler with authentication as configured.
SpecAuth == InitAuth /\ [][NextStore]_vars

(***************************************************************************)
(* The object store's tree: PUT and DELETE of nested keys without "..".    *)
(***************************************************************************)
NextTree ==
  \/ \E key \in DeepKeys, body \in Bodies, v \in Verdicts : ServePut(key, body, v)
  \/ \E key \in DeepKeys, v \in Verdicts : ServeDelete(key, v)

SpecTree == InitStoreOnly /\ [][NextTree]_vars

\* A bucket-level GET.
ServeList(prefix, mk, v) == ServeHTTP(v, "GET", <<>>, ListObjectsV2(prefix, mk))

(***************************************************************************)
(* Listings of a tree that holds ".git" directories and files.             *)
(***************************************************************************)
NextList ==
  \/ \E key \in ListKeys, v \in Verdicts : ServePut(key, <<>>, v)
  \/ \E key \in ListKeys, v \in Verdicts : ServeDelete(key, v)
  \/ \E prefix \in ListPrefixes, mk \in MaxKeysValues, v \in Verdicts :
       ServeList(prefix, mk, v)

SpecList == InitStoreOnly /\ [][NextList]_vars

\* NewHandler with either spelling of the directory, no access key.
InitDir ==
  /\ InitWorker
  /\ cfg = [repoNil |-> FALSE, remote |-> FALSE, interval |-> 0]
  /\ InitStore
  /\ accessKey = ""
  /\ dirArg \in DirArgs
  /\ verdict = "none"
  /\ InitSigv
  /\ InitIr

\* The store's tree under every configured spelling of Dir.
SpecDir == InitDir /\ [][NextTree]_vars

(***************************************************************************)
(* Strings of the SigV4 verifier.  A string is a sequence of tokens: the   *)
(* separator characters " ", ",", "=", "/", ";" and atoms, which are runs  *)
(* of other characters.  SHA-256 and HMAC-SHA256 are taken as injective:   *)
(* the hex digest is an atom naming what was hashed.                       *)
(***************************************************************************)
hashSHA256(data) == ToString(<<"sha256", data>>)
hmacSHA256(key, data) == ToString(<<"hmac", key, data>>)

\* strings.TrimSpace
TrimSpace(str) ==
  LET ink == {n \in 1..Len(str) : str[n] # " "}
  IN IF ink = {} THEN <<>>
     ELSE SubSeq(str, CHOOSE n \in ink : \A k \in ink : n <= k,
                      CHOOSE n \in ink : \A k \in ink : n >= k)

\* strings.Index: the first position at which sep occurs in str, 0 if none.
Index(str, sep) ==
  LET at == {n \in 1..(Len(str) - Len(sep) + 1) : SubSeq(str, n, n + Len(sep) - 1) = sep}
  IN IF at = {} THEN 0 ELSE CHOOSE n \in at : \A k \in at : n <= k

\* strings.Split(str, sep), sep not empty: the pieces between the
\* occurrences of sep; <<str>> when there is none.
RECURSIVE Split(_, _)
Split(str, sep) ==
  LET n == Index(str, sep)
  IN IF n = 0 THEN <<str>>
     ELSE <<SubSeq(str, 1, n - 1)>> \o Split(SubSeq(str, n + Len(sep), Len(str)), sep)

\* strings.SplitN(str, sep, 2): cut at the first sep.
SplitN2(str, sep) ==
  LET n == Index(str, sep)
  IN IF n = 0 THEN <<str>>
     ELSE <<SubSeq(str, 1, n - 1), SubSeq(str, n + Len(sep), Len(str))>>

\* r.Header.Get(name): the first value of the header, "" when absent. A
\* name that is not one atom names no header.
HeaderGet(r, name) ==
  IF Len(name) = 1 /\ name[1] \in DOMAIN r.header /\ r.header[name[1]] # <<>>
  THEN r.header[name[1]][1]
  ELSE <<>>

\* The map built from the Authorization header's "k=v" parts: a part with no
\* "=" is dropped, key and value are trimmed, and a later part with the same
\* key replaces an earlier one.
AuthField(parts, name) ==
  LET has == {n \in 1..Len(parts) :
                /\ Len(SplitN2(parts[n], <<"=">>)) = 2
                /\ TrimSpace(SplitN2(parts[n], <<"=">>)[1]) = name}
  IN IF has = {} THEN <<>>
     ELSE TrimSpace(SplitN2(parts[CHOOSE n \in has : \A k \in has : n >= k], <<"=">>)[2])

\* The order sort.Strings gives the header names used here, any other
\* string coming first.
NameRank(h) ==
  IF h = <<"host">> THEN 1
  ELSE IF h = <<"x-amz-content-sha256">> THEN 2
  ELSE IF h = <<"x-amz-date">> THEN 3
  ELSE 0
SortNames(names) == SortSeq(names, LAMBDA a, b : NameRank(a) < NameRank(b))

\* One line of the canonical headers: h + ":" + val, val being r.Host for
\* "host" and the trimmed first value of the header otherwise.
CanonicalHeader(r, h) ==
  <<h, IF h = <<"host">> THEN r.host ELSE TrimSpace(HeaderGet(r, h))>>

\* The canonical request with the method left out.
CanonicalRequest_NoMethod(r, signedHeadersStr) ==
  LET signedHeaders == SortNames(Split(signedHeadersStr, <<";">>))
      payload == HeaderGet(r, <<"x-amz-content-sha256">>)
  IN <<IF r.path = <<>> THEN <<"/">> ELSE r.path,
       r.query,
       [n \in 1..Len(signedHeaders) |-> CanonicalHeader(r, signedHeaders[n])],
       signedHeadersStr,
       IF payload = <<>> THEN <<"UNSIGNED-PAYLOAD">> ELSE payload>>

\* The canonical request: method, escaped path ("/" if empty), sorted query
\* string, canonical headers in sorted order, the SignedHeaders field as
\* received, the payload hash header or UNSIGNED-PAYLOAD. Its parts are kept
\* apart: no two requests join to the same text.
CanonicalRequest(r, signedHeadersStr) ==
  LET signedHeaders == SortNames(Split(signedHeadersStr, <<";">>))
      payload == HeaderGet(r, <<"x-amz-content-sha256">>)
  IN <<r.method,
       IF r.path = <<>> THEN <<"/">> ELSE r.path,
       r.query,
       [n \in 1..Len(signedHeaders) |-> CanonicalHeader(r, signedHeaders[n])],
       signedHeadersStr,
       IF payload = <<>> THEN <<"UNSIGNED-PAYLOAD">> ELSE payload>>

\* deriveSigningKey: the four-step HMAC chain.
deriveSigningKey(secret, dateStamp, region, service) ==
  hmacSHA256(hmacSHA256(hmacSHA256(hmacSHA256(<<"AWS4">> \o secret, dateStamp),
                                   region), service), <<"aws4_request">>)

\* The hex signature of request r under the scope and the secret.
ExpectedSig(r, signedHeadersStr, secretKey, dateStamp, credRegion, service) ==
  hmacSHA256(deriveSigningKey(secretKey, dateStamp, credRegion, service),
             <<"AWS4-HMAC-SHA256", HeaderGet(r, <<"x-amz-date">>),
               dateStamp, credRegion, service, "aws4_request",
               hashSHA256(CanonicalRequest(r, signedHeadersStr))>>)

Scheme == <<"AWS4-HMAC-SHA256", " ">>

\* sigV4Verify without the comparison of the credential's access key.
sigV4Verify_NoAccessKeyCheck(r, ak, secretKey, region) ==
  LET authHeader == HeaderGet(r, <<"authorization">>)
      parts == Split(SubSeq(authHeader, Len(Scheme) + 1, Len(authHeader)), <<",", " ">>)
      credential == AuthField(parts, <<"Credential">>)
      signedHeadersStr == AuthField(parts, <<"SignedHeaders">>)
      signature == AuthField(parts, <<"Signature">>)
      credParts == Split(credential, <<"/">>)
  IN /\ authHeader # <<>>
     /\ IsPrefix(Scheme, authHeader)
     /\ credential # <<>> /\ signedHeadersStr # <<>> /\ signature # <<>>
     /\ Len(credParts) = 5
     /\ credParts[3] = region
     /\ signature = <<ExpectedSig(r, signedHeadersStr, secretKey,
                                  credParts[2], credParts[3], credParts[4])>>

\* sigV4Verify(r, accessKey, secretKey, region)
sigV4Verify(r, ak, secretKey, region) ==
  LET authHeader == HeaderGet(r, <<"authorization">>)
      parts == Split(SubSeq(authHeader, Len(Scheme) + 1, Len(authHeader)), <<",", " ">>)
      credential == AuthField(parts, <<"Credential">>)
      signedHeadersStr == AuthField(parts, <<"SignedHeaders">>)
      signature == AuthField(parts, <<"Signature">>)
      credParts == Split(credential, <<"/">>)
  IN /\ authHeader # <<>>
     /\ IsPrefix(Scheme, authHeader)
     /\ credential # <<>> /\ signedHeadersStr # <<>> /\ signature # <<>>
     /\ Len(credParts) = 5 /\ credParts[1] = ak
     /\ credParts[3] = region
     /\ signature = <<ExpectedSig(r, signedHeadersStr, secretKey,
                                  credParts[2], credParts[3], credParts[4])>>

(***************************************************************************)
(* The verifier taken alone: a client holding a credential signs a request *)
(* (as the test of a valid signature does, with the canonical form the     *)
(* verifier uses), the request may be changed on its way, and sigV4Verify  *)
(* runs on what arrives with the handler's credential.                     *)
(***************************************************************************)
\* Access keys, among them one holding a "/" and one beginning with a space.
AccessKeys == {<<"AK">>, <<"A", "/", "K">>, <<" ", "AK">>}
SecretKeys == {<<"sk">>}
Regions == {<<"us-east-1">>, <<"eu", "/", "1">>}
Methods == {"GET", "PUT"}
Paths == {<<"/vault">>, <<"/vault/a">>, <<"/other/a">>}
Hosts == {<<"example.com">>, <<"evil.example">>}
\* Values of the X-Amz-Date header: plain, the same within spaces, another.
DateValues == {<<"20230101T000000Z">>, <<" ", "20230101T000000Z", " ">>, <<"20230102T000000Z">>}
\* SignedHeaders lists a client may choose.
SignedHeaderLists == {<<"host">>, <<"host", ";", "x-amz-date">>,
                      <<"host", ";", "x-amz-content-sha256", ";", "x-amz-date">>}

\* The Authorization header as the client writes it.
Authorization(ak, dateStamp, region, signedHeadersStr, signature) ==
  Scheme \o <<"Credential", "=">> \o ak \o <<"/">> \o dateStamp \o <<"/">> \o region
         \o <<"/", "s3", "/", "aws4_request", ",", " ", "SignedHeaders", "=">>
         \o signedHeadersStr \o <<",", " ", "Signature", "=">> \o signature

\* The request r with its Authorization header, signed under the credential.
Signed(r, cred, signedHeadersStr) ==
  LET dateStamp == <<"20230101">>
      signature == <<ExpectedSig(r, signedHeadersStr, cred.secretKey,
                                 dateStamp, cred.region, <<"s3">>)>>
  IN [r EXCEPT !.header = ("authorization" :>
         <<Authorization(cred.accessKey, dateStamp, cred.region,
                         signedHeadersStr, signature)>>) @@ r.header]

\* The handler is configured with a credential.
Configure ==
  /\ sigv.stage = "init"
  /\ \E ak \in AccessKeys, sk \in SecretKeys, region \in Regions :
       sigv' = [sigv EXCEPT !.stage = "configured",
                            !.cred = [accessKey |-> ak, secretKey |-> sk, region |-> region]]
  /\ UNCHANGED <<files, dirs, resp, accessKey, dirArg, ir, verdict, workerVars, ghostVars>>

\* A client builds a request and signs it with the credential.
SignRequest ==
  /\ sigv.stage = "configured"
  /\ \E m \in Methods, path \in Paths, date \in DateValues, shs \in SignedHeaderLists :
       LET r == [method |-> m, path |-> path, query |-> <<"list-type=2">>,
                 host |-> <<"example.com">>,
                 header |-> ("x-amz-date" :> <<date>>)
                              @@ ("x-amz-content-sha256" :> <<<<"UNSIGNED-PAYLOAD">>>>)]
           signed == Signed(r, sigv.cred, shs)
       IN sigv' = [sigv EXCEPT !.stage = "signed", !.orig = signed, !.req = signed]
  /\ UNCHANGED <<files, dirs, resp, accessKey, dirArg, ir, verdict, workerVars, ghostVars>>

\* The fields of a request's Authorization header, as sigV4Verify reads them.
AuthParts(r) ==
  LET authHeader == HeaderGet(r, <<"authorization">>)
  IN Split(SubSeq(authHeader, Len(Scheme) + 1, Len(authHeader)), <<",", " ">>)
SignedNames(r) == Split(AuthField(AuthParts(r), <<"SignedHeaders">>), <<";">>)

\* On its way the request's method is changed.
TamperMethod ==
  /\ sigv.stage = "signed"
  /\ \E m \in Methods \ {sigv.req.method} :
       sigv' = [sigv EXCEPT !.stage = "tampered", !.what = "method", !.req.method = m]
  /\ UNCHANGED <<files, dirs, resp, accessKey, dirArg, ir, verdict, workerVars, ghostVars>>

\* On its way the request's path is changed.
TamperPath ==
  /\ sigv.stage = "signed"
  /\ \E path \in Paths \ {sigv.req.path} :
       sigv' = [sigv EXCEPT !.stage = "tampered", !.what = "path", !.req.path = path]
  /\ UNCHANGED <<files, dirs, resp, accessKey, dirArg, ir, verdict, workerVars, ghostVars>>

\* On its way the value of a signed header is changed: the Host, or the
\* X-Amz-Date header, which gets another value or a second value after the
\* first.
TamperHeader ==
  /\ sigv.stage = "signed"
  /\ \/ /\ \E n \in DOMAIN SignedNames(sigv.req) : SignedNames(sigv.req)[n] = <<"host">>
        /\ \E host \in Hosts \ {sigv.req.host} :
             sigv' = [sigv EXCEPT !.stage = "tampered", !.what = "header", !.req.host = host]
     \/ /\ \E n \in DOMAIN SignedNames(sigv.req) : SignedNames(sigv.req)[n] = <<"x-amz-date">>
        /\ \/ \E date \in DateValues \ {sigv.req.header["x-amz-date"][1]} :
                sigv' = [sigv EXCEPT !.stage = "tampered", !.what = "header",
                                     !.req.header["x-amz-date"] = <<date>>]
           \/ \E date \in DateValues :
                sigv' = [sigv EXCEPT !.stage = "tampered", !.what = "header",
                                     !.req.header["x-amz-date"] = Append(@, date)]
  /\ UNCHANGED <<files, dirs, resp, accessKey, dirArg, ir, verdict, workerVars, ghostVars>>

\* On its way the Signature field is changed: to another digest, or by a
\* space put before the digest.
TamperSignature ==
  /\ sigv.stage = "signed"
  /\ LET auth == sigv.req.header["authorization"][1]
         digest == auth[Len(auth)]
     IN \E signature \in {<<"0000">>, <<" ", digest>>} :
          sigv' = [sigv EXCEPT !.stage = "tampered", !.what = "signature",
                     !.req.header["authorization"] =
                        <<SubSeq(auth, 1, Len(auth) - 1) \o signature>>]
  /\ UNCHANGED <<files, dirs, resp, accessKey, dirArg, ir, verdict, workerVars, ghostVars>>

\* The ways a client's Authorization header may be unfit: no header at all,
\* another scheme, a Credential, SignedHeaders or Signature field missing or
\* empty, a credential scope of other than five parts, another access key,
\* another region.
UnfitKinds == {"noauthorization", "otherscheme", "nocredential", "nosignedheaders",
              "nosignature", "credparts", "otheraccesskey", "otherregion"}
\* An access key and a region that the handler is never configured with.
OtherAccessKey == <<"wrongkey">>
OtherRegion == <<"eu-west-1">>

\* One "k=v" part of the Authorization header, and the parts put together.
AuthPart(name, value) == <<name, "=">> \o value
RECURSIVE JoinParts(_)
JoinParts(parts) ==
  IF parts = <<>> THEN <<>>
  ELSE IF Len(parts) = 1 THEN parts[1]
  ELSE parts[1] \o <<",", " ">> \o JoinParts(Tail(parts))

\* The number of "/" in the string.
Slashes(str) == Cardinality({n \in DOMAIN str : str[n] = "/"})

\* The unfit Authorization headers of a kind (none when there is no header), written by
\* a client that knows the credential and puts the given Signature value.
UnfitAuthorizations(kind, cred, signedHeadersStr, signature) ==
  LET dateStamp == <<"20230101">>
      scope(ak, region) == ak \o <<"/">> \o dateStamp \o <<"/">> \o region \o <<"/", "s3">>
      request == <<"/", "aws4_request">>
      c == AuthPart("Credential", scope(cred.accessKey, cred.region) \o request)
      h == AuthPart("SignedHeaders", signedHeadersStr)
      s == AuthPart("Signature", signature)
  IN CASE kind = "otherscheme" ->
            {<<"Bearer", " ", "token123">>,
             JoinParts(<<c, h, s>>),
             <<"AWS4-HMAC-SHA256">> \o JoinParts(<<c, h, s>>),
             <<"AWS4-HMAC-SHA1", " ">> \o JoinParts(<<c, h, s>>)}
       [] kind = "nocredential" ->
            {Scheme \o JoinParts(<<h, s>>),
             Scheme \o JoinParts(<<AuthPart("Credential", <<>>), h, s>>)}
       [] kind = "nosignedheaders" ->
            {Scheme \o JoinParts(<<c, s>>),
             Scheme \o JoinParts(<<c, AuthPart("SignedHeaders", <<>>), s>>)}
       [] kind = "nosignature" ->
            {Scheme \o JoinParts(<<c, h>>),
             Scheme \o JoinParts(<<c, h, AuthPart("Signature", <<>>)>>)}
       [] kind = "credparts" ->
            {Scheme \o JoinParts(<<AuthPart("Credential", t), h, s>>) :
               t \in {t \in {scope(cred.accessKey, cred.region),
                             scope(cred.accessKey, cred.region) \o request \o <<"/", "x">>,
                             cred.accessKey} :
                        Slashes(t) + 1 # 5}}
       [] kind = "otheraccesskey" ->
            {Scheme \o JoinParts(<<AuthPart("Credential",
                                            scope(OtherAccessKey, cred.region) \o request), h, s>>)}
       [] kind = "otherregion" ->
            {Scheme \o JoinParts(<<AuthPart("Credential",
                                            scope(cred.accessKey, region) \o request), h, s>>) :
               region \in (Regions \cup {OtherRegion}) \ {cred.region}}
       [] OTHER -> {}

\* The client sends the signed request with an unfit Authorization header,
\* or with none. The Signature value in it is any of: the digest of the
\* request under the handler's secret key for one of the regions, or another
\* digest.
UnfitAuthorization ==
  /\ sigv.stage = "signed"
  /\ LET r == sigv.req
         signedHeadersStr == AuthField(AuthParts(r), <<"SignedHeaders">>)
         signatures == {<<ExpectedSig(r, signedHeadersStr, sigv.cred.secretKey,
                                      <<"20230101">>, region, <<"s3">>)>> :
                          region \in Regions \cup {OtherRegion}} \cup {<<"0000">>}
     IN \E kind \in UnfitKinds :
          \/ /\ kind = "noauthorization"
             /\ sigv' = [sigv EXCEPT !.stage = "tampered", !.what = kind,
                           !.req.header = [n \in DOMAIN r.header \ {"authorization"} |->
                                             r.header[n]]]
          \/ \E signature \in signatures :
               \E auth \in UnfitAuthorizations(kind, sigv.cred, signedHeadersStr, signature) :
                 sigv' = [sigv EXCEPT !.stage = "tampered", !.what = kind,
                                      !.req.header["authorization"] = <<auth>>]
  /\ UNCHANGED <<files, dirs, resp, accessKey, dirArg, ir, verdict, workerVars, ghostVars>>

\* The request arrives and the handler calls sigV4Verify with its credential.
Verify ==
  /\ sigv.stage \in {"signed", "tampered"}
  /\ sigv' = [sigv EXCEPT !.stage = "verified",
                          !.result = sigV4Verify(sigv.req, sigv.cred.accessKey,
                                                 sigv.cred.secretKey, sigv.cred.region)]
  /\ UNCHANGED <<files, dirs, resp, accessKey, dirArg, ir, verdict, workerVars, ghostVars>>

NextSig ==
  \/ Configure
  \/ SignRequest
  \/ TamperMethod
  \/ TamperPath
  \/ TamperHeader
  \/ TamperSignature
  \/ UnfitAuthorization
  \/ Verify

\* Nothing is signed yet; the handler and the worker are at rest.
InitSig ==
  /\ Init
  /\ cfg = [repoNil |-> FALSE, remote |-> FALSE, interval |-> 0]

SpecSig == InitSig /\ [][NextSig]_vars

(***************************************************************************)
(* ServeHTTP from the request path on: the route and the dispatch.         *)
(***************************************************************************)
\* s.bucket, and the bucket segments of requests.
Bucket == <<"vault">>
Buckets == {<<"vault">>, <<"other">>}

\* The methods of the requests that get to the route: an OPTIONS request is
\* answered 200 right after the CORS headers.
DispatchMethods == {"GET", "HEAD", "PUT", "DELETE", "POST"}

\* Request paths: the bucket alone, with a trailing "/", with a key of one
\* or two segments; the path "/" and a path with an empty bucket segment.
RequestPaths ==
  {<<"/">>, <<"/", "/", "a">>}
    \cup UNION {{<<"/">> \o b, <<"/">> \o b \o <<"/">>,
                 <<"/">> \o b \o <<"/", "a">>,
                 <<"/">> \o b \o <<"/", "a", "/", "b">>} : b \in Buckets}

\* strings.TrimPrefix(str, prefix)
TrimPrefix(str, prefix) ==
  IF IsPrefix(prefix, str) THEN SubSeq(str, Len(prefix) + 1, Len(str)) ELSE str

\* path := TrimPrefix(r.URL.Path, "/"); parts := SplitN(path, "/", 2);
\* bucket := parts[0]; key := parts[1] when there is one, else "".
Route(urlPath) ==
  LET parts == SplitN2(TrimPrefix(urlPath, <<"/">>), <<"/">>)
  IN [bucket |-> parts[1], key |-> IF Len(parts) > 1 THEN parts[2] ELSE <<>>]

\* The segments of a key: filepath.Join drops the empty ones.
KeySegments(key) ==
  LET pieces == SelectSeq(Split(key, <<"/">>), LAMBDA piece : piece # <<>>)
  IN [i \in DOMAIN pieces |-> pieces[i][1]]

\* The bucket-level HEAD answering 200 whatever the bucket.
HeadBucket_AnyBucket(bucket) ==
  /\ resp' = Response("HEAD", <<>>, 200, "", <<>>, -1, "", FALSE)
  /\ UNCHANGED <<files, dirs, accessKey, dirArg, ir, sigv, workerVars, ghostVars>>

\* The bucket-level HEAD: 200 when bucket is s.bucket, else 404
\* NoSuchBucket.
HeadBucket(bucket) ==
  /\ resp' = IF bucket = Bucket
             THEN Response("HEAD", <<>>, 200, "", <<>>, -1, "", FALSE)
             ELSE XmlError("HEAD", <<>>, 404, "NoSuchBucket")
  /\ UNCHANGED <<files, dirs, accessKey, dirArg, ir, sigv, workerVars, ghostVars>>

\* w.WriteHeader(http.StatusMethodNotAllowed): 405, nothing written.
MethodNotAllowed(m) ==
  /\ resp' = Response(m, <<>>, 405, "", <<>>, -1, "", FALSE)
  /\ UNCHANGED <<files, dirs, accessKey, dirArg, ir, sigv, workerVars, ghostVars>>

\* ServeHTTP's two switches with the object-level one answering 404
\* NoSuchBucket when the bucket is not s.bucket.
Dispatch_ChecksBucket(m, urlPath, body) ==
  LET rt == Route(urlPath)
  IN IF rt.key = <<>>
     THEN CASE m = "GET" -> ListObjectsV2(<<>>, <<>>)
            [] m = "HEAD" -> HeadBucket(rt.bucket)
            [] OTHER -> MethodNotAllowed(m)
     ELSE IF rt.bucket # Bucket
     THEN /\ resp' = XmlError(m, KeySegments(rt.key), 404, "NoSuchBucket")
          /\ UNCHANGED <<files, dirs, accessKey, dirArg, ir, sigv, workerVars, ghostVars>>
     ELSE CASE m = "PUT" -> PutObject(KeySegments(rt.key), body)
            [] m = "GET" -> GetObject(KeySegments(rt.key))
            [] m = "HEAD" -> HeadObject(KeySegments(rt.key))
            [] m = "DELETE" -> DeleteObject(KeySegments(rt.key))
            [] OTHER -> MethodNotAllowed(m)

\* ServeHTTP's two switches.
Dispatch(m, urlPath, body) ==
  LET rt == Route(urlPath)
  IN IF rt.key = <<>>
     THEN CASE m = "GET" -> ListObjectsV2(<<>>, <<>>)
            [] m = "HEAD" -> HeadBucket(rt.bucket)
            [] OTHER -> MethodNotAllowed(m)
     ELSE CASE m = "PUT" -> PutObject(KeySegments(rt.key), body)
            [] m = "GET" -> GetObject(KeySegments(rt.key))
            [] m = "HEAD" -> HeadObject(KeySegments(rt.key))
            [] m = "DELETE" -> DeleteObject(KeySegments(rt.key))
            [] OTHER -> MethodNotAllowed(m)

\* A request with its path as received.
ServeRequest(m, urlPath, body, v) ==
  ServeHTTP(v, m, KeySegments(Route(urlPath).key), Dispatch(m, urlPath, body))

\* ServeHTTP on an OPTIONS request: the CORS headers, then 200, before the
\* signature check and the route.
ServeOptions ==
  /\ verdict' = "unchecked"
  /\ resp' = Response("OPTIONS", <<>>, 200, "", <<>>, -1, "", FALSE)
  /\ UNCHANGED <<files, dirs, accessKey, dirArg, ir, sigv, workerVars, ghostVars>>

NextDispatch ==
  \/ \E m \in DispatchMethods, urlPath \in RequestPaths, body \in Bodies, v \in Verdicts :
       ServeRequest(m, urlPath, body, v)
  \/ ServeOptions

\* The handler, with or without an access key, from the request path on.
SpecDispatch == InitAuth /\ [][NextDispatch]_vars

(***************************************************************************)
(* Repository initialisation: InitRepo and initRepo, one library call at a *)
(* time.  ir.disk is the repository at Dir: whether it exists, the branch  *)
(* its HEAD is a symbolic reference to, its remotes.                       *)
(***************************************************************************)
\* InitRepo calls in one behaviour.
MaxInitCalls == 3

\* cfg.Branch, and the branch PlainInit points HEAD at.
Branch == "main"
DefaultBranch == "master"
\* cfg.Repo: "" when no remote is configured.
RepoUrls == {"", "url"}
Origin(url) == [name |-> "origin", url |-> url]

\* InitRepo(cfg): os.MkdirAll(cfg.Dir), then initRepo.
InitRepoCall ==
  /\ ir.pc = "idle"
  /\ ir.calls < MaxInitCalls
  /\ ir' = [ir EXCEPT !.pc = "open", !.calls = @ + 1, !.before = ir.disk,
                      !.handle = "none", !.tried = {}, !.failed = {},
                      !.prev = [handle |-> ir.handle, tried |-> ir.tried]]
  /\ UNCHANGED <<files, dirs, resp, accessKey, dirArg, verdict, sigv, workerVars, ghostVars>>

\* gogit.PlainOpen(cfg.Dir) finding no repository, whatever Dir holds.
PlainOpen_NotFound ==
  /\ ir.pc = "open"
  /\ ir' = [ir EXCEPT !.pc = IF ir.repo # "" THEN "clone" ELSE "init",
                      !.tried = @ \cup {"open"}, !.failed = @ \cup {"open"}]
  /\ UNCHANGED <<files, dirs, resp, accessKey, dirArg, verdict, sigv, workerVars, ghostVars>>

\* gogit.PlainOpen(cfg.Dir): the repository at Dir is returned when there
\* is one; else the clone is next when a remote is configured, the fresh
\* init when not.
PlainOpen ==
  /\ ir.pc = "open"
  /\ ir' = IF ir.disk.exists
           THEN [ir EXCEPT !.pc = "idle", !.handle = "repo", !.tried = @ \cup {"open"}]
           ELSE [ir EXCEPT !.pc = IF ir.repo # "" THEN "clone" ELSE "init",
                           !.tried = @ \cup {"open"}, !.failed = @ \cup {"open"}]
  /\ UNCHANGED <<files, dirs, resp, accessKey, dirArg, verdict, sigv, workerVars, ghostVars>>

\* What a failed gogit.PlainClone leaves at Dir. PlainClone initialises a
\* repository at Dir and registers origin before it fetches, and on failure
\* removes what it made only when Dir was empty (or missing) before.
CloneLeftover(dirEmpty, url) ==
  IF dirEmpty THEN NoRepo
  ELSE [exists |-> TRUE, head |-> DefaultBranch, remotes |-> {Origin(url)}]

\* gogit.PlainClone(cfg.Dir, false, cloneOpts): on success the clone is
\* returned, HEAD on cfg.Branch and origin registered; on failure initRepo
\* goes on to the fresh init.
PlainClone ==
  /\ ir.pc = "clone"
  /\ \/ ir' = [ir EXCEPT !.pc = "idle", !.handle = "repo", !.tried = @ \cup {"clone"},
                         !.dirEmpty = FALSE,
                         !.disk = [exists |-> TRUE, head |-> Branch,
                                   remotes |-> {Origin(ir.repo)}]]
     \/ ir' = [ir EXCEPT !.pc = "init", !.tried = @ \cup {"clone"},
                         !.failed = @ \cup {"clone"},
                         !.disk = CloneLeftover(ir.dirEmpty, ir.repo),
                         !.dirEmpty = ir.dirEmpty /\ ~CloneLeftover(ir.dirEmpty, ir.repo).exists]
  /\ UNCHANGED <<files, dirs, resp, accessKey, dirArg, verdict, sigv, workerVars, ghostVars>>

\* gogit.PlainInit(cfg.Dir, false): fails with ErrRepositoryAlreadyExists
\* when Dir holds a repository (failed step "exists"), and may fail on the
\* disk (failed step "init"); initRepo then returns the error and InitRepo
\* nil. Else a repository with HEAD on the
\* default branch and no remote.
PlainInit ==
  /\ ir.pc = "init"
  /\ \/ /\ ~ir.disk.exists
        /\ ir' = [ir EXCEPT !.pc = "sethead", !.tried = @ \cup {"init"},
                            !.dirEmpty = FALSE,
                            !.disk = [exists |-> TRUE, head |-> DefaultBranch,
                                      remotes |-> {}]]
     \/ ir' = [ir EXCEPT !.pc = "idle", !.handle = "nil", !.tried = @ \cup {"init"},
                         !.failed = @ \cup {IF ir.disk.exists THEN "exists" ELSE "init"}]
  /\ UNCHANGED <<files, dirs, resp, accessKey, dirArg, verdict, sigv, workerVars, ghostVars>>

\* repo.Storer.SetReference(HEAD -> refs/heads/<Branch>): a failure is
\* logged and initRepo goes on; the remote is next when one is configured,
\* else the repository is returned.
SetHead ==
  /\ ir.pc = "sethead"
  /\ \E ok \in BOOLEAN :
       ir' = [ir EXCEPT !.pc = IF ir.repo # "" THEN "remote" ELSE "idle",
                        !.handle = IF ir.repo # "" THEN "none" ELSE "repo",
                        !.tried = @ \cup {"sethead"},
                        !.failed = IF ok THEN @ ELSE @ \cup {"sethead"},
                        !.disk.head = IF ok THEN Branch ELSE @]
  /\ UNCHANGED <<files, dirs, resp, accessKey, dirArg, verdict, sigv, workerVars, ghostVars>>

\* repo.CreateRemote(origin, cfg.Repo): a failure is logged; the repository
\* is returned either way.
CreateRemote ==
  /\ ir.pc = "remote"
  /\ \E ok \in BOOLEAN :
       ir' = [ir EXCEPT !.pc = "idle", !.handle = "repo",
                        !.tried = @ \cup {"remote"},
                        !.failed = IF ok THEN @ ELSE @ \cup {"remote"},
                        !.disk.remotes = IF ok THEN @ \cup {Origin(ir.repo)} ELSE @]
  /\ UNCHANGED <<files, dirs, resp, accessKey, dirArg, verdict, sigv, workerVars, ghostVars>>

NextInit ==
  \/ InitRepoCall
  \/ PlainOpen
  \/ PlainClone
  \/ PlainInit
  \/ SetHead
  \/ CreateRemote

\* The repositories Dir may hold before the first call: none, or one made
\* earlier, with HEAD on either branch and with or without origin.
StartDisks ==
  {NoRepo} \cup
    {[exists |-> TRUE, head |-> h, remotes |-> rs] :
       h \in {Branch, DefaultBranch}, rs \in {{}, {Origin("url")}}}

\* Dir empty or holding files already (a repository counts), with or
\* without a remote configured.
InitInitRepo ==
  /\ InitWorker
  /\ cfg = [repoNil |-> FALSE, remote |-> FALSE, interval |-> 0]
  /\ InitStore
  /\ accessKey = ""
  /\ dirArg = PathString(Dir)
  /\ verdict = "none"
  /\ InitSigv
  /\ \E url \in RepoUrls, empty \in BOOLEAN, disk \in StartDisks :
       /\ disk.exists => ~empty
       /\ ir = [pc |-> "idle", repo |-> url, dirEmpty |-> empty, disk |-> disk,
                before |-> disk, handle |-> "none", calls |-> 0, tried |-> {},
                failed |-> {}, prev |-> NoCall]

SpecInit == InitInitRepo /\ [][NextInit]_vars

(***************************************************************************)
(* Claims about the Sync Worker                                            *)
(***************************************************************************)
\* Nothing of the worker is in progress or pending.
Quiescent ==
  /\ \A h \in Clients : hpc[h] = "idle"
  /\ \A i \in Timers : tstate[i] \in {"unused", "stopped", "done"}

\* C1: a burst of Trigger calls, each less than Debounce after the previous
\* one, results in exactly one doSync execution: never more than one, and
\* one once the worker has come to rest.
C1_BurstExactlyOneSync ==
  burst = "ok" => /\ SyncRuns <= 1
                  /\ Quiescent => SyncRuns = 1

\* C2: when a timer-driven doSync execution begins its work, at least
\* Debounce has elapsed since the most recent Trigger (measured from the
\* moment that Trigger installed its timer).
C2_SyncAfterQuietInterval ==
  \A i \in Timers : tstate[i] = "begin" => SinceArm >= Debounce

\* C3: at most one doSync callback is installed and has not yet run.
C3_AtMostOneScheduled ==
  Cardinality({i \in Timers : tstate[i] \in {"armed", "fired"}}) <= 1

\* C4: a Trigger call never waits for the mutex while a doSync or doPull is
\* at its repository or network work.
C4_TriggerNeverWaits ==
  \A h \in Clients :
    hpc[h] = "lock" => /\ \A i \in Timers : tstate[i] \notin RepoOps
                       /\ ppc # "pull"

(***************************************************************************)
(* Fairness: time advances (no infinity of steps within one instant), an  *)
(* expired timer starts its callback, whoever holds gs.mu finishes         *)
(* (repository operations terminate), and a goroutine blocked in Lock gets *)
(* the mutex (sync.Mutex hands a starving waiter the lock).                *)
(***************************************************************************)
HolderStep ==
  \/ \E h \in Clients : TriggerArm(h) \/ TriggerUnlock(h)
  \/ \E i \in Timers : \/ SyncBegin(i) \/ SyncWorktree(i) \/ SyncAdd(i) \/ SyncStatus(i)
                       \/ SyncCommit(i) \/ SyncPull(i) \/ SyncPush(i) \/ SyncUnlock(i)
  \/ DoPullBody
  \/ DoPullUnlock

Fairness ==
  /\ SF_vars(Tick)
  /\ WF_vars(StartPuller)
  /\ WF_vars(\E i \in Timers : TimerFire(i))
  /\ WF_vars(HolderStep)
  /\ WF_vars(DoPullLock)
  /\ SF_vars(\E h \in Clients : TriggerLock(h))
  /\ SF_vars(\E i \in Timers : SyncLock(i))

SpecLive == Init /\ [][Next]_vars /\ Fairness

\* C5: every Trigger call that has returned is eventually followed by a
\* doSync execution that begins after it returned.
C5_EveryTriggerSynced ==
  \A k \in Timers : (TrigRet >= k) ~> (examined >= k)

\* Reached: the first timer's doSync has run, and the second timer's doSync
\* begins after both Triggers returned.
C5_Witness ==
  tstate[1] = "done" /\ tstate[2] = "begin" /\ examined = 2

\* The processes between gs.mu.Lock() and gs.mu.Unlock().
InCS ==
  {<<"http", h>> : h \in {g \in Clients : hpc[g] \in {"arm", "unlock"}}}
    \cup {<<"sync", i>> : i \in {j \in Timers : tstate[j] \in SyncBody}}
    \cup (IF ppc \in {"pull", "unlock"} THEN {<<"pull", 0>>} ELSE {})

\* C6: Trigger's timer update, doSync's body and doPull's body exclude one
\* another: at most one process is inside its critical section.
C6_MutualExclusion ==
  Cardinality(InCS) <= 1

\* Reached: a doSync is at its repository work while a Trigger and a doPull
\* wait for the mutex.
C6_Witness ==
  /\ \E i \in Timers : tstate[i] \in RepoOps
  /\ \E h \in Clients : hpc[h] = "lock"
  /\ ppc = "lock"

\* C7: with a nil repo no operation touches the repository or panics, the
\* puller never runs, and the mutex is free whenever nobody is between Lock
\* and Unlock.
C7_NilRepoNoOp ==
  cfg.repoNil =>
    /\ ~panicked
    /\ \A i \in Timers : tstate[i] \notin RepoOps
    /\ ppc \in {"init", "off"}
    /\ idx = 0 /\ tree = 0 /\ head = 0
    /\ InCS = {} => mu = Free

\* Reached: with a nil repo and a remote and interval configured,
\* StartPuller has returned, a Trigger has returned and its doSync has run.
C7_Witness ==
  /\ cfg.repoNil /\ cfg.remote /\ cfg.interval > 0
  /\ ppc = "off"
  /\ TrigRet >= 1
  /\ \E i \in Timers : tstate[i] = "done"
  /\ mu = Free

\* A doSync execution's commit step that creates a commit.
Commits ==
  /\ \E i \in Timers : tstate[i] = "commit" /\ tstate'[i] # "commit"
  /\ head' # head

\* C8 as stated: when the working tree is as the previous doSync execution
\* staged it (as the repository was created, for the first), this execution
\* creates no commit.
C8_NoChangeNoCommit ==
  [][Commits => ~noChange]_vars

\* C8 amended: when the working tree is as the previous doSync execution
\* staged it, and that execution ended by committing or by finding the tree
\* clean, this execution creates no commit.
C8_NoChangeNoCommitAfterSuccess ==
  [][Commits => ~(noChange /\ okPrev)]_vars

\* Reached: a second execution has staged an unwritten tree after a first
\* one that committed, and is about to read the status.
C8_Witness ==
  /\ tstate[1] = "done" /\ tstate[2] = "status"
  /\ noChange /\ okPrev
  /\ head = 1

(***************************************************************************)
(* Claims about the S3 handler                                             *)
(***************************************************************************)
\* The one answer a GET of key gives when it finds a file holding body.
GetFound(key, body) == Response("GET", key, 200, "", body, Len(body), "", FALSE)
\* The answers a GET of key would give now, its own disk errors aside.
GetNow(fl, ds, key) == {r \in GetResponses(fl, ds, key) : ~r.ioerr}

\* Keys with no ".." segment.
PlainKeys == {key \in Keys : \A n \in DOMAIN key : key[n] \in Names}

\* C9 as stated, for keys with no ".." segment: in every state reached by
\* PUTs and DELETEs, a PUT of body to key that meets no disk error answers
\* 200 with a non-empty ETag, and the GET of key right after it answers 200
\* with exactly body and Content-Length Len(body).
C9_PutThenGet ==
  [][(resp'.method = "PUT" /\ ~resp'.ioerr) =>
       \A key \in PlainKeys, body \in Bodies :
         PutObject(key, body) =>
           /\ resp'.status = 200 /\ resp'.etag # ""
           /\ GetNow(files', dirs', key) = {GetFound(key, body)}]_vars

\* The key's path is a directory, or has a file among its ancestors.
Conflict(key) ==
  LET fullPath == FullPath[key]
  IN fullPath \in dirs \/ fullPath = <<>> \/ NotDir(files, fullPath)

\* C9 amended: a PUT of body to key that meets no disk error answers 200
\* unless the key's path is a directory or has a file among its ancestors,
\* and then 500; after every PUT that answers 200 the ETag is non-empty and
\* the GET of key right after it answers 200 with exactly body (nothing of
\* the earlier content) and Content-Length Len(body).
C9_PutOkThenGet ==
  [][(resp'.method = "PUT" /\ ~resp'.ioerr) =>
       \A key \in Keys, body \in Bodies :
         PutObject(key, body) =>
           /\ resp'.status = IF Conflict(key) THEN 500 ELSE 200
           /\ resp'.status = 200 =>
                /\ resp'.etag # ""
                /\ GetNow(files', dirs', key) = {GetFound(key, body)}]_vars

\* Reached: a one-byte PUT has replaced a two-byte file, beside another file.
C9_Witness ==
  /\ resp.method = "PUT" /\ resp.status = 200
  /\ {<<"d", "a", "b">>, <<"d", "b">>} \subseteq DOMAIN files
  /\ files[<<"d", "a", "b">>] = <<1>>

\* C10, in its weakest reading: a request whose key escapes Dir through
\* ".." segments is never answered 200 or 204 (the claim asks for 403
\* AccessDenied), and no file or directory outside Dir is ever made.
C10_TraversalRejected ==
  /\ \A p \in (DOMAIN files) \cup dirs : p = <<>> \/ IsPrefix(Dir, p)
  /\ resp.escaped => resp.status \notin {200, 204}

\* C11: with an access key configured, a request the verifier does not
\* accept is answered 403 AccessDenied, changes no file or directory and
\* does not call Trigger; without an access key the verifier is not called
\* and no request is answered 403.
C11_AuthRejects ==
  [][/\ verdict' = "invalid" =>
          /\ resp'.status = 403 /\ resp'.code = "AccessDenied"
          /\ files' = files /\ dirs' = dirs
          /\ ~resp'.trig
     /\ accessKey = "" => (verdict' = "unchecked" /\ resp'.status # 403)]_vars

\* Reached: with an access key, a file is stored and a DELETE with a bad
\* signature has been turned down.
C11_Witness ==
  /\ accessKey # "" /\ verdict = "invalid"
  /\ resp.method = "DELETE" /\ resp.status = 403
  /\ DOMAIN files # {}

NoSeparator(str) == \A n \in DOMAIN str : str[n] \notin {"/", ",", " "}

\* The Signature field of the request, spaces around it dropped.
SignatureOf(r) == AuthField(AuthParts(r), <<"Signature">>)
\* The first value of header h of the request (the Host for "host"), spaces
\* around it dropped.
FirstValue(r, h) == IF h = <<"host">> THEN r.host ELSE TrimSpace(HeaderGet(r, h))

\* What the signature covers differs between the two requests.
SignedPartDiffers(r, q) ==
  \/ r.method # q.method
  \/ r.path # q.path
  \/ SignatureOf(r) # SignatureOf(q)
  \/ \E n \in DOMAIN SignedNames(r) :
       FirstValue(r, SignedNames(r)[n]) # FirstValue(q, SignedNames(r)[n])

NoObject(fl, key) == FullPath[key] \notin DOMAIN fl

\* C13: in every reachable store state, a DELETE of a key at which no
\* object exists answers 204 and leaves every stored object as it was, and
\* a second DELETE of the same key answers 204 again and leaves the store
\* as the first one left it. Stated for the keys without a ".." segment,
\* which is less than the claim says.
C13_DeleteMissingIs204 ==
  \A key \in PlainKeys :
    NoObject(files, key) =>
      LET once == DeleteOutcome(files, dirs, key)
          twice == DeleteOutcome(once.files, once.dirs, key)
      IN /\ once.status = 204
         /\ once.files = files
         /\ twice = once

\* The directories strictly between s.dir and the path p.
AncestorsBelowDir(p) ==
  {q \in Prefixes(Parent(p)) : IsPrefix(Dir, q) /\ q # Dir}

\* C14: when a DELETE answers 204 and has removed the file p, no ancestor
\* directory of p below Dir is left without an entry, and every directory
\* that still has an entry is kept.
C14_EmptiedAncestorsRemoved ==
  [][(resp'.method = "DELETE" /\ resp'.status = 204 /\ DOMAIN files' # DOMAIN files) =>
       LET p == CHOOSE p \in DOMAIN files : p \notin DOMAIN files'
       IN /\ \A q \in AncestorsBelowDir(p) :
               q \in dirs' => Entries(files', dirs', q) # {}
          /\ \A q \in dirs :
               (\E e \in (DOMAIN files') \cup dirs' : e # <<>> /\ Parent(e) = q) => q \in dirs'
    ]_vars

\* A DELETE has removed the only file, two directories deep, and both of
\* its emptied ancestors with it.
C14_Witness ==
  /\ resp.method = "DELETE"
  /\ resp.status = 204
  /\ resp.cleaned = 2
  /\ files = <<>>
  /\ dirs = {<<>>, Dir}

\* C15: whatever spelling of Dir is configured and whatever the key, a
\* DELETE removes only directories strictly below Dir: never Dir itself,
\* never a directory above or outside it. (The upward walk ends because
\* Cleanup is evaluated to its end whenever DELETE answers.) Stated for
\* the keys without a ".." segment, which is less than the claim says.
C15_CleanupStopsAtDir ==
  [][resp'.method = "DELETE" =>
       \A q \in dirs \ dirs' : IsPrefix(Dir, q) /\ q # Dir]_vars

(***************************************************************************)
(* Claims about GET and HEAD.                                              *)
(***************************************************************************)
\* C16: in every reachable store state, for every key at which no object
\* is stored, whatever GET and HEAD can answer is 404 with the error code
\* NoSuchKey (so that 200 is answered only for keys naming a stored
\* object). Stated for the keys without a ".." segment, which is less than
\* the claim says.
C16_MissingIsNoSuchKey ==
  \A key \in PlainKeys :
    NoObject(files, key) =>
      \A r \in GetResponses(files, dirs, key) \cup HeadResponses(files, dirs, key) :
        r.status = 404 /\ r.code = "NoSuchKey"

(***************************************************************************)
(* Claims about listings.                                                  *)
(***************************************************************************)
\* A directory named ".git" is among the directories that hold path p.
InsideGit(p) == \E i \in 1..(Len(p) - 1) : p[i] = ".git"

\* The relative paths of the regular files under Dir, outside every ".git"
\* directory, that start with prefix.
Listable(fl, prefix) ==
  {RelPath(Dir, p) : p \in {q \in DOMAIN fl : /\ IsPrefix(Dir, q) /\ q # Dir
                                            /\ ~InsideGit(q)
                                            /\ HasPrefix(RelPath(Dir, q), prefix)}}

\* C17: a listing with prefix P that maxKeys does not curtail holds the
\* slash-form relative path of exactly the regular files under Dir that
\* are outside every ".git" directory and whose path starts with P, each
\* once.
C17_ListingExact ==
  (resp.list.listed /\ Cardinality(Listable(files, resp.list.prefix)) <= resp.list.maxKeys) =>
    LET contents == resp.list.contents
    IN /\ {contents[i] : i \in DOMAIN contents} = Listable(files, resp.list.prefix)
       /\ \A i, j \in DOMAIN contents : contents[i] = contents[j] => i = j

\* A listing with the empty prefix has left out what a ".git" directory
\* holds and a listing with prefix "a/" what is outside a/, and each has
\* kept a file.
C17_Witness ==
  /\ resp.list.listed
  /\ resp.list.maxKeys = 1000
  /\ resp.list.keyCount = 1
  /\ Cardinality(DOMAIN files) = 2
  /\ \/ resp.list.prefix = <<>> /\ \E p \in DOMAIN files : InsideGit(p)
     \/ resp.list.prefix = <<"a", "/">> /\ \A p \in DOMAIN files : ~InsideGit(p)

\* The number of files a listing with this prefix matches.
MatchCount(fl, prefix) == Cardinality(Listable(fl, prefix))

\* C18 as stated: for every max-keys value M that is a number, the listing
\* has at most M entries and KeyCount is the number of Contents entries,
\* min(M, number of files matching the prefix); with max-keys absent or
\* not a number the same holds for 1000.
C18_KeyCountIsMin ==
  resp.list.listed =>
    LET arg == resp.list.maxKeysArg
        M == IF arg # <<>> /\ Atoi(arg).ok THEN Atoi(arg).n ELSE 1000
    IN /\ Len(resp.list.contents) <= M
       /\ resp.list.keyCount = Len(resp.list.contents)
       /\ resp.list.keyCount = Min(M, MatchCount(files, resp.list.prefix))

\* C18 amended: the same for M >= 0, and for M < 0 the listing is empty
\* with KeyCount 0.
C18_KeyCountIsMinNonNegative ==
  resp.list.listed =>
    LET arg == resp.list.maxKeysArg
        M == IF arg # <<>> /\ Atoi(arg).ok THEN Atoi(arg).n ELSE 1000
    IN /\ resp.list.keyCount = Len(resp.list.contents)
       /\ M >= 0 => /\ Len(resp.list.contents) <= M
                    /\ resp.list.keyCount = Min(M, MatchCount(files, resp.list.prefix))
       /\ M < 0 => resp.list.keyCount = 0

\* A listing was cut to one entry by max-keys=1 while two files matched.
C18_Witness ==
  /\ resp.list.listed
  /\ resp.list.maxKeysArg = <<"1">>
  /\ resp.list.keyCount = 1
  /\ MatchCount(files, resp.list.prefix) = 2

(***************************************************************************)
(* Claims about the handler's calls of Trigger and its dispatch.           *)
(***************************************************************************)
\* C19: every PUT that answers 200 has called Trigger, every DELETE of an
\* object key has called Trigger whether or not the object existed, and a
\* PUT that answers 500 has not called it. (Each handler has one call of
\* Trigger, its last statement: called means called once, after the store
\* was changed and the status written.)
C19_TriggerByPutAndDelete ==
  /\ (resp.method = "PUT" /\ resp.status = 200) => resp.trig
  /\ resp.method = "DELETE" => resp.trig
  /\ (resp.method = "PUT" /\ resp.status = 500) => ~resp.trig

\* The path names a bucket and no key: no "/" other than the leading one
\* has anything after it.
EmptyKeyPart(urlPath) ==
  \A i \in DOMAIN urlPath : (i > 1 /\ urlPath[i] = "/") => i = Len(urlPath)

\* The bucket segment of a path with an empty key part.
BucketSegment(urlPath) ==
  SelectSeq(urlPath, LAMBDA token : token # "/")

\* C20: of the requests that get to the dispatch (not refused by the
\* signature check), one whose path has an empty key part is handled at
\* bucket level: GET is answered by a listing, HEAD by 200 if the bucket
\* segment is the configured bucket and else by 404 NoSuchBucket, any other
\* method by 405; one whose path has a key and whose method is not PUT, GET,
\* HEAD or DELETE is answered 405; and every 405 has an empty body, changes
\* no file or directory and does not call Trigger.
C20_DispatchMatrix ==
  [][\A m \in DispatchMethods, urlPath \in RequestPaths, body \in Bodies, v \in Verdicts :
       (v # "invalid" /\ resp'.method = m /\ ServeRequest(m, urlPath, body, v)) =>
         /\ (EmptyKeyPart(urlPath) /\ m = "GET") => resp'.list.listed
         /\ (EmptyKeyPart(urlPath) /\ m = "HEAD") =>
              /\ resp'.status = 200 <=> BucketSegment(urlPath) = Bucket
              /\ resp'.status # 200 => (resp'.status = 404 /\ resp'.code = "NoSuchBucket")
         /\ \/ EmptyKeyPart(urlPath) /\ m \notin {"GET", "HEAD"}
            \/ ~EmptyKeyPart(urlPath) /\ m \notin {"PUT", "GET", "HEAD", "DELETE"}
            => /\ resp'.status = 405
               /\ resp'.code = "" /\ resp'.body = <<>>
               /\ files' = files /\ dirs' = dirs
               /\ ~resp'.trig
    ]_vars

\* A PUT was answered 405, which only a bucket-level PUT is, on a store
\* that holds a file.
C20_Witness ==
  /\ resp.method = "PUT"
  /\ resp.status = 405
  /\ DOMAIN files # {}


(***************************************************************************)
(* Claims about repository initialisation.                                 *)
(***************************************************************************)
\* An InitRepo call has returned.
Returned == ir.pc = "idle" /\ ir.calls > 0

\* The steps of the fallback that met an error of the disk.
FallbackErrors == ir.failed \cap {"init", "sethead", "remote"}

\* C21: when an InitRepo call found no repository at Dir, had a remote
\* configured and saw its clone fail, and no step of the fallback met a
\* disk error, it has returned a repository whose only remote is origin
\* with the configured URL and whose HEAD is a symbolic reference to
\* refs/heads/<Branch>.
C21_CloneFailureFallsBack ==
  (Returned /\ "clone" \in ir.failed /\ FallbackErrors = {}) =>
    /\ ir.handle = "repo"
    /\ ir.disk.remotes = {Origin(ir.repo)}
    /\ ir.disk.head = Branch

\* C22: whenever a step of the fallback (the fresh init, setting HEAD to
\* refs/heads/<Branch>, registering origin) has failed, InitRepo has
\* returned nil. (That a worker built on a nil handle does nothing is C7.)
C22_FallbackFailureIsNil ==
  (Returned /\ FallbackErrors # {}) => ir.handle = "nil"

\* C25: an InitRepo call that finds a repository at Dir returns it, having
\* tried nothing but the open, and leaves the repository as it was; so a
\* call that follows a call that returned a repository returns a
\* repository too and leaves the one at Dir as the earlier call left it.
C25_OpenFirstIdempotent ==
  Returned =>
    /\ ir.before.exists =>
         (ir.handle = "repo" /\ ir.tried = {"open"} /\ ir.disk = ir.before)
    /\ ir.prev.handle = "repo" =>
         (ir.handle = "repo" /\ ir.tried = {"open"} /\ ir.disk = ir.before)

\* Reached: a first call made the repository by a fresh init, and a second
\* call has returned it.
C25_Witness ==
  /\ Returned /\ ir.calls = 2
  /\ ir.prev = [handle |-> "repo", tried |-> {"open", "init", "sethead"}]
  /\ ir.handle = "repo" /\ ir.tried = {"open"}
  /\ ir.disk = [exists |-> TRUE, head |-> Branch, remotes |-> {}]

(***************************************************************************)
(* Claims about the periodic puller and the steps of doSync.               *)
(***************************************************************************)
\* The ticker of the puller's loop delivers its next tick.
FairnessPull == Fairness /\ WF_vars(PullerRecv)

SpecPull == Init /\ [][Next]_vars /\ FairnessPull

\* The puller is in doPull.
InDoPull == ppc \in {"lock", "pull", "unlock"}

\* C23 as stated: without a remote or with an interval <= 0 the puller is
\* never in doPull; with a remote and an interval > 0 it is in pullLocked
\* again and again for ever, and every pull, failed or not, is followed by
\* the loop waiting for its next tick with the mutex released.
C23_PullerLoop ==
  /\ []((~cfg.remote \/ cfg.interval <= 0) => ~InDoPull)
  /\ (cfg.remote /\ cfg.interval > 0) => []<>(ppc = "pull")
  /\ (ppc = "pull") ~> (ppc = "wait" /\ mu # Holder("pull", 0))

\* C23 amended: the same, the loop running for ever when moreover the repo
\* handle is not nil.
C23_PullerLoopWithRepo ==
  /\ []((~cfg.remote \/ cfg.interval <= 0) => ~InDoPull)
  /\ (cfg.remote /\ cfg.interval > 0 /\ ~cfg.repoNil) => []<>(ppc = "pull")
  /\ (ppc = "pull") ~> (ppc = "wait" /\ mu # Holder("pull", 0))

\* The puller is in pullLocked, holding the mutex, after a doSync execution
\* has ended and while the callback of a later timer waits for the mutex.
C23_Witness ==
  /\ ppc = "pull"
  /\ mu = Holder("pull", 0)
  /\ \E i \in Timers : tstate[i] = "done"
  /\ \E i \in Timers : tstate[i] = "fired"
(***************************************************************************)
(* Claims about what sigV4Verify turns down before it compares signatures. *)
(***************************************************************************)
\* C24: whatever Signature value it carries, a request is turned down by
\* sigV4Verify when it has no Authorization header, when the header does not
\* begin with "AWS4-HMAC-SHA256 ", when it has no Credential, SignedHeaders
\* or Signature field or an empty one, when its credential is not five
\* parts between "/", or when the credential names another access key or
\* another region than the configured ones.
C24_UnfitAuthorizationRejected ==
  (sigv.stage = "verified" /\ sigv.what \in UnfitKinds) => ~sigv.result

\* Reached: a request whose credential names another access key, all the
\* rest and the signature being what the verifier expects, was turned down.
C24_Witness ==
  /\ sigv.stage = "verified" /\ sigv.what = "otheraccesskey" /\ ~sigv.result
  /\ sigV4Verify(sigv.orig, sigv.cred.accessKey, sigv.cred.secretKey, sigv.cred.region)
  /\ SignatureOf(sigv.req) = SignatureOf(sigv.orig)

(***************************************************************************)
(* Claims about the steps of one doSync execution.                         *)
(***************************************************************************)
\* The place of a position in doSync's text.
StepRank(pos) ==
  CASE pos = "begin" -> 0 [] pos = "worktree" -> 1 [] pos = "add" -> 2
    [] pos = "status" -> 3 [] pos = "commit" -> 4 [] pos = "pull" -> 5
    [] pos = "push" -> 6 [] pos = "unlock" -> 7 [] OTHER -> 8

\* C26: every step of a doSync execution moves it forward in the order
\* stage-all, status, commit, pull, push, to the next operation or to the
\* return; a clean status and a failed commit lead to the return; the pull
\* is entered only from a commit that moved HEAD and with a remote
\* configured, and is then entered; the push is entered only from the pull
\* and always follows it; after the push comes the return.
C26_StepOrder ==
  [][\A i \in Timers :
       (tstate[i] \in SyncBody /\ tstate'[i] # tstate[i]) =>
         /\ StepRank(tstate'[i]) > StepRank(tstate[i])
         /\ tstate'[i] \in RepoOps => StepRank(tstate'[i]) = StepRank(tstate[i]) + 1
         /\ (tstate[i] = "status" /\ IsClean) => tstate'[i] = "unlock"
         /\ (tstate[i] = "commit" /\ head' = head) => tstate'[i] = "unlock"
         /\ (tstate[i] = "commit" /\ head' # head) =>
              tstate'[i] = IF cfg.remote THEN "pull" ELSE "unlock"
         /\ tstate'[i] = "pull" => (tstate[i] = "commit" /\ head' # head /\ cfg.remote)
         /\ tstate[i] = "pull" => tstate'[i] = "push"
         /\ tstate'[i] = "push" => tstate[i] = "pull"
         /\ tstate[i] = "push" => tstate'[i] = "unlock"]_vars

\* Reached: after an execution that ended, another one has committed and
\* pulled and is at its push.
C26_Witness ==
  /\ cfg.remote /\ ~cfg.repoNil
  /\ \E i, j \in Timers : tstate[i] = "done" /\ tstate[j] = "push"

(***************************************************************************)
(* Claims about the release of gs.mu.                                      *)
(***************************************************************************)
\* gs.mu is held by nobody, or by a process that is between its Lock and
\* its deferred Unlock.
HeldInside ==
  \/ mu = Free
  \/ mu.kind = "http" /\ hpc[mu.id] \in {"arm", "unlock"}
  \/ mu.kind = "sync" /\ tstate[mu.id] \in SyncBody
  \/ mu.kind = "pull" /\ ppc \in {"pull", "unlock"}

\* C27: gs.mu is never held by a Trigger, a doSync or a doPull that has
\* returned; a held mutex is released later on; and every Trigger, every
\* fired doSync callback and every doPull that waits for the mutex gets it.
C27_MutexAlwaysReleased ==
  /\ []HeldInside
  /\ (mu # Free) ~> (mu = Free)
  /\ \A h \in Clients : (hpc[h] = "lock") ~> (hpc[h] = "arm")
  /\ \A i \in Timers : (tstate[i] = "fired") ~> (tstate[i] = "begin")
  /\ (ppc = "lock") ~> (ppc = "pull")

\* Reached: a doPull holds the mutex while a Trigger and a fired doSync
\* callback wait for it.
C27_Witness ==
  /\ mu = Holder("pull", 0) /\ ppc = "pull"
  /\ \E h \in Clients : hpc[h] = "lock"
  /\ \E i \in Timers : tstate[i] = "fired"

(***************************************************************************)
(* Claims about the bucket segment of object-level requests.               *)
(***************************************************************************)
\* The methods of the object-level handlers.
ObjectMethods == {"PUT", "GET", "HEAD", "DELETE"}
\* The first path segments compared: the buckets and the empty segment.
FirstSegments == Buckets \cup {<<>>}
\* The path of the key in the bucket.
WithBucket(bucket, key) == <<"/">> \o bucket \o <<"/">> \o key

\* C28 as stated: whenever an object-level PUT, GET, HEAD or DELETE is
\* served, the request with any other first path segment, whatever the
\* signature check says of it, would get the same response and leave the
\* same files and directories.
C28_BucketIgnored ==
  [][\A m \in ObjectMethods, urlPath \in RequestPaths, body \in Bodies, v \in Verdicts :
       (/\ resp'.method = m /\ verdict' = v /\ Route(urlPath).key # <<>>
        /\ ServeRequest(m, urlPath, body, v)) =>
         \A bucket \in FirstSegments, v2 \in Verdicts :
           LET other == WithBucket(bucket, Route(urlPath).key)
           IN IF accessKey # "" /\ v2 # "valid"
              THEN /\ resp' = XmlError(m, KeySegments(Route(other).key), 403, "AccessDenied")
                   /\ files' = files /\ dirs' = dirs
              ELSE Dispatch(m, other, body)
    ]_vars

\* C28 amended: whenever an object-level PUT, GET, HEAD or DELETE is
\* served, the request with any other first path segment that the signature
\* check treats alike would get the same response and leave the same files
\* and directories, the rest of the path being the key.
C28_BucketIgnoredSameVerdict ==
  [][\A m \in ObjectMethods, urlPath \in RequestPaths, body \in Bodies, v \in Verdicts :
       (/\ resp'.method = m /\ verdict' = v /\ Route(urlPath).key # <<>>
        /\ ServeRequest(m, urlPath, body, v)) =>
         \A bucket \in FirstSegments :
           /\ Route(WithBucket(bucket, Route(urlPath).key)).key = Route(urlPath).key
           /\ ServeRequest(m, WithBucket(bucket, Route(urlPath).key), body, v)
    ]_vars

\* Reached: with an access key configured, a PUT that passed the signature
\* check has stored an object two segments deep, and the store holds two.
C28_Witness ==
  /\ accessKey # "" /\ verdict = "valid"
  /\ resp.method = "PUT" /\ resp.status = 200
  /\ FullPath[<<"a", "b">>] \in DOMAIN files

(***************************************************************************)
(* Claims about the requests that only read.                               *)
(***************************************************************************)
\* The methods of GET object, bucket listing, HEAD object, HEAD bucket and
\* OPTIONS.
ReadOnlyMethods == {"GET", "HEAD", "OPTIONS"}

\* C29: a GET, HEAD or OPTIONS request, whatever its path and its answer,
\* leaves every file and directory as it was, does not call Trigger, and
\* leaves the worker (its mutex, its timers, its repository) as it was.
C29_ReadOnlyTouchNothing ==
  [][resp'.method \in ReadOnlyMethods =>
       /\ files' = files /\ dirs' = dirs
       /\ ~resp'.trig
       /\ UNCHANGED workerVars
    ]_vars

\* Reached: a bucket listing was answered on a store that holds a file two
\* segments deep.
C29_Witness ==
  /\ resp.method = "GET" /\ resp.status = 200 /\ resp.list.listed
  /\ FullPath[<<"a", "b">>] \in DOMAIN files

====
